---- MODULE Spec2Model ----
(***************************************************************************)
(* RaJePy JetModel (src/classes.py): voxel grid, fill factors, lazily      *)
(* cached physical fields, time dependent mass-loss rate and the           *)
(* free-free / recombination-line radiative-transfer calls.                *)
(*                                                                         *)
(* Numbers.  A float of the program is an exact rational [n, d] or NaN.    *)
(* Lengths are counted in quarter cells (c_size = 4), so that centroids,   *)
(* vertices and the launch radius r_0 are integers.  The jet axis is the   *)
(* grid z axis (inc = 90 deg, pa = 0 deg), where xyz_to_rwp reduces to     *)
(* r = z, w = sqrt(x^2 + y^2); the model carries w^2 (ww2) and compares    *)
(* squares instead of taking the root.  Unit factors (con.au, 1e2,         *)
(* con.parsec, 1.989e30 / con.year) are taken as 1, con.year as Year.      *)
(***************************************************************************)
EXTENDS Integers, Sequences, FiniteSets, TLC

VARIABLES
    params,      \* self._params (the dict the caller supplied, as mutated)
    nx, ny, nz,  \* self._nx, self._ny, self._nz
    time,        \* self._time
    jml_t,       \* self._jml_t: the closure chain, innermost event first
    ejections,   \* self._ejections
    _ff,         \* self._ff
    _areas,      \* self._areas
    _ts,         \* self._ts
    _m,          \* self._m
    _nd,         \* self._nd
    _xi,         \* self._xi
    _temp,       \* self._temp
    _v,          \* self._v
    ret,         \* the last call and what it returned
    given,       \* the params dict as the caller held it before construction
    nloops,      \* how often the voxel loop of fill_factor has run on the model
    saved,       \* the dict JetModel.save pickled to the model file, or None
    _arr_indexing,  \* JetModel._arr_indexing (class attribute)
    fits,        \* the image save_fits last wrote to the .fits path, or None
    pipeline,    \* the Pipeline object holding the model (its paths), or None
    runs,        \* Pipeline._runs: the ContinuumRun objects, in list order
    disk,        \* the directories and files on disk: path -> epoch of the data
    plsaved,     \* the dict Pipeline.save pickled to the save file, or None
    exec         \* the position of Pipeline.execute in its loop over the runs

vars == <<params, nx, ny, nz, time, jml_t, ejections,
          _ff, _areas, _ts, _m, _nd, _xi, _temp, _v, ret,
          given, nloops, saved, _arr_indexing, fits,
          pipeline, runs, disk, plsaved, exec>>

None == <<>>

Year == 2            \* con.year, in model time units
ExpUnderflow == 4    \* exponent from which 2 ** -e is rounded to 0

----------------------------------------------------------------------------
(* Floats as rationals + NaN *)

Abs(x) == IF x < 0 THEN -x ELSE x

RECURSIVE Gcd(_, _)
Gcd(a, b) == IF b = 0 THEN a ELSE Gcd(b, a % b)

NaN == [nan |-> TRUE, n |-> 0, d |-> 1]

Rat(n, d) ==
    LET g == Gcd(Abs(n), Abs(d))
        s == IF d < 0 THEN -1 ELSE 1
    IN  [nan |-> FALSE, n |-> s * (n \div g), d |-> s * (d \div g)]

Num(n) == [nan |-> FALSE, n |-> n, d |-> 1]

IsNaN(a) == a.nan

\* a + b over the least common denominator
RAdd(a, b) ==
    IF a.nan \/ b.nan THEN NaN
    ELSE LET g == Gcd(a.d, b.d)
         IN  Rat(a.n * (b.d \div g) + b.n * (a.d \div g), a.d * (b.d \div g))
RNeg(a)    == IF a.nan THEN NaN ELSE [nan |-> FALSE, n |-> -a.n, d |-> a.d]
RSub(a, b) == RAdd(a, RNeg(b))
\* a * b, the common factors cancelled before the products are taken
RMul(a, b) ==
    IF a.nan \/ b.nan THEN NaN
    ELSE LET g == Gcd(Abs(a.n), b.d)
             h == Gcd(Abs(b.n), a.d)
         IN  Rat((a.n \div g) * (b.n \div h), (a.d \div h) * (b.d \div g))
\* x / 0 is never evaluated by the modelled code on the configurations drawn
\* below (mod_r_0 > 0, mlr > 0, half_life > 0, b - a > 0); it is mapped to NaN.
RDiv(a, b) == IF a.nan \/ b.nan \/ b.n = 0 THEN NaN ELSE Rat(a.n * b.d, a.d * b.n)

\* Comparisons with NaN are False, as in IEEE arithmetic.
RLt(a, b) == ~a.nan /\ ~b.nan /\ a.n * b.d < b.n * a.d
RLe(a, b) == ~a.nan /\ ~b.nan /\ a.n * b.d <= b.n * a.d
RGt(a, b) == RLt(b, a)
RGe(a, b) == RLe(b, a)
REq(a, b) == ~a.nan /\ ~b.nan /\ a.n * b.d = b.n * a.d

RECURSIVE IPow(_, _)
IPow(b, k) == IF k = 0 THEN 1 ELSE b * IPow(b, k - 1)

\* x ** k for an integer exponent k; numpy gives nan ** 0 = 1.
RPow(a, k) ==
    IF k = 0 THEN Num(1)
    ELSE IF a.nan THEN NaN
    ELSE IF k > 0 THEN Rat(IPow(a.n, k), IPow(a.d, k))
    ELSE IF a.n = 0 THEN NaN
    ELSE Rat(IPow(a.d, -k), IPow(a.n, -k))

\* np.where(cond, x, y) on one element
Where(cond, x, y) == IF cond THEN x ELSE y

\* np.nan_to_num(x, nan=NaN, posinf=NaN, neginf=NaN): the non-finite values
\* become NaN, the finite ones are kept.
NanToNum(a) == IF a.nan THEN NaN ELSE a

----------------------------------------------------------------------------
(* Grid *)

Vox == (0 .. nx - 1) \X (0 .. ny - 1) \X (0 .. nz - 1)
Pix == (0 .. nx - 1) \X (0 .. nz - 1)

csize == params.c_size

\* JetModel.grid: bottom-left-front corner of voxel u, csize * (i - n // 2)
grid(u) == <<csize * (u[1] - nx \div 2),
             csize * (u[2] - ny \div 2),
             csize * (u[3] - nz \div 2)>>

\* maths.geometry.xyz_to_rwp at inc = 90, pa = 0: r along z, w^2 returned
\* (wsin, wcos: w sin(phi) = y and w cos(phi) = x stand for the azimuth phi)
xyz_to_rwp(x, y, z) == [r |-> z, w2 |-> x * x + y * y, wsin |-> y, wcos |-> x]

\* JetModel.grid_rwp: r, w^2 of the centroid of voxel u
grid_rwp(u) ==
    LET g == grid(u)
        h == csize \div 2
    IN  xyz_to_rwp(g[1] + h, g[2] + h, g[3] + h)

rr(u)  == grid_rwp(u).r
ww2(u) == grid_rwp(u).w2

RAbs(a) == IF a.nan THEN NaN ELSE [nan |-> FALSE, n |-> Abs(a.n), d |-> a.d]

\* maths.geometry.rho: distance along the jet in units of mod_r_0, undefined
\* (NaN) inside the launch cavity |r| < r_0; r is a float
rho(r, r_0, mod_r_0) ==
    IF RGe(RAbs(r), Num(r_0))
    THEN RDiv(RAdd(RAbs(r), Num(mod_r_0 - r_0)), Num(mod_r_0))
    ELSE NaN

\* maths.geometry.w_r: jet half-width w(r) = w_0 * rho(r) ** eps
w_r(r, w_0, mod_r_0, r_0, eps) ==
    RMul(Num(w_0), RPow(rho(Num(r), r_0, mod_r_0), eps))

\* sqrt(a2) <= b for an integer a2 >= 0 and a float b (False if b is NaN)
SqrtLe(a2, b) == ~b.nan /\ b.n >= 0 /\ a2 * b.d * b.d <= b.n * b.n

\* sqrt(a2) - sqrt(h2) > b for integers a2, h2 >= 0 and a float b >= 0
\* (False if b is NaN): a2 > h2 and, squaring, a2 + h2 - b^2 > 2 sqrt(a2 h2),
\* squared once more when the left side is positive.
SqrtMinusGt(a2, h2, b) ==
    /\ ~b.nan
    /\ a2 > h2
    /\ LET l == RSub(Num(a2 + h2), RMul(b, b))
       IN  l.n > 0 /\ l.n * l.n > 4 * a2 * h2 * l.d * l.d

EightVerts(x, y, z, cs) ==
    {<<x + dx, y + dy, z + dz>> : dx \in {0, cs}, dy \in {0, cs}, dz \in {0, cs}}

\* the inside test of one vertex: (wv <= wr) & (np.abs(rv) >= r_0)
VertInside(vt, p) ==
    LET c  == xyz_to_rwp(vt[1], vt[2], vt[3])
        wr == w_r(c.r, p.w_0, p.mod_r_0, p.r_0, p.epsilon)
    IN  SqrtLe(c.w2, wr) /\ Abs(c.r) >= p.r_0

NVertsInside(u) ==
    LET g == grid(u)
    IN  Cardinality({vt \in EightVerts(g[1], g[2], g[3], csize) : VertInside(vt, params)})

\* the quick reject of the voxel loop: (ww - 0.5 * diag) > w_r(rr)
\* with diag = sqrt(3 cs^2), i.e. (0.5 diag)^2 = 3 (cs/2)^2
QuickReject(u) ==
    LET wr == w_r(rr(u), params.w_0, params.mod_r_0, params.r_0, params.epsilon)
        h  == csize \div 2
    IN  SqrtMinusGt(ww2(u), 3 * h * h, wr)

Half == Rat(1, 2)

\* the voxel loop body with the fraction of vertices inside as fill factor
VoxelFill_fraction(u) ==
    IF QuickReject(u) THEN [ff |-> Num(0), area |-> Num(0)]
    ELSE LET s == NVertsInside(u)
         IN  [ff |-> Rat(s, 8), area |-> Rat(s, 8)]

\* one pass of the voxel loop body: the (ff, area) left in ffs / areas, which
\* start as np.zeros
VoxelFill(u) ==
    IF QuickReject(u) THEN [ff |-> Num(0), area |-> Num(0)]
    ELSE LET s == NVertsInside(u)
         IN  IF s = 8 THEN [ff |-> Num(1), area |-> Num(1)]
             ELSE IF s = 0 THEN [ff |-> Num(0), area |-> Num(0)]
             ELSE [ff |-> Half, area |-> Num(1)]

Tiny == Rat(1, 1000000)

\* the fill factors without the 1e-6 threshold: untouched voxels stay 0
ComputeFF_zeros == [u \in Vox |-> VoxelFill(u).ff]

\* the arrays fill_factor stores: np.where(ffs > 1e-6, ffs, NaN), same for areas
ComputeFF    == [u \in Vox |-> LET f == VoxelFill(u).ff IN Where(RGt(f, Tiny), f, NaN)]
ComputeAreas == [u \in Vox |-> LET a == VoxelFill(u).area IN Where(RGt(a, Tiny), a, NaN)]

----------------------------------------------------------------------------
(* Mass-loss rate as a function of time *)

\* self._ss_jml = params.properties.mlr * 1.989e30 / con.year
ss_jml == Num(params.mlr)

\* 2 ** -e for a float e >= 0.  The factor np.exp(-(t - t_0)**2 / (2 sigma**2))
\* with sigma = half_life * 2 / (2 sqrt(2 ln 2)) is 2 ** -((t - t_0) / half_life)**2.
\* Exact where the exponent is an integer; between integers the value of the
\* integer below is taken, and from ExpUnderflow on the result is 0.
Exp2Neg(e) ==
    IF e.nan THEN NaN
    ELSE LET k == e.n \div e.d
         IN  IF k >= ExpUnderflow THEN Num(0) ELSE Rat(1, IPow(2, k))

\* the pulse with the peak rate itself as its amplitude
Pulse_peak(ev, t) ==
    LET x == RDiv(RSub(t, Num(ev.t_0)), Num(ev.half_life))
    IN  RMul(ev.peak_jml, Exp2Neg(RMul(x, x)))

\* func2(t) of add_ejection_event without the fnc(t) term: the Gaussian pulse
Pulse(ev, t) ==
    LET amp == RSub(ev.peak_jml, ss_jml)
        x   == RDiv(RSub(t, Num(ev.t_0)), Num(ev.half_life))
    IN  RMul(amp, Exp2Neg(RMul(x, x)))

RECURSIVE JmlT(_, _)

\* the last added event's pulse on the steady rate, the earlier events dropped
JmlT_last(chain, t) ==
    IF chain = <<>> THEN ss_jml
    ELSE RAdd(ss_jml, Pulse(chain[Len(chain)], t))

\* self._jml_t(t): lambda t: self._ss_jml wrapped once per added event,
\* func2(t) = fnc(t) + pulse, the last added event outermost
JmlT(chain, t) ==
    IF chain = <<>> THEN ss_jml
    ELSE LET k == Len(chain)
         IN  RAdd(JmlT(SubSeq(chain, 1, k - 1), t), Pulse(chain[k], t))


----------------------------------------------------------------------------
(* The arrays the lazily cached properties compute on their first access *)

\* maths.geometry.r_eff: the disc radius a voxel's material was launched
\* from, R_1 on the axis, R_2 on the jet boundary, clipped to [R_1, R_2]
r_eff(w2, R_1, R_2, w_0, r, mod_r_0, r_0, eps) ==
    LET wr == w_r(r, w_0, mod_r_0, r_0, eps)
        x  == RAdd(Num(R_1), RMul(Num(R_2 - R_1), RDiv(Num(w2), RMul(wr, wr))))
    IN  IF x.nan THEN NaN
        ELSE IF x.n < R_1 * x.d THEN Num(R_1)
        ELSE IF x.n > R_2 * x.d THEN Num(R_2) ELSE x

\* JetModel.rreff
rreff(u) == r_eff(ww2(u), params.R_1, params.R_2, params.w_0, Abs(rr(u)),
                  params.mod_r_0, params.r_0, params.epsilon)

\* the radius moved to the far edge of the cell
ClampedR_edge(u) ==
    LET r == Abs(rr(u))
        h == csize \div 2
    IN  IF r < params.r_0 /\ r + h >= params.r_0 THEN Num(r + h) ELSE Num(r)

\* the radius ts and ion_fraction use for voxel u:
\* np.where((r < r_0) & ((r + csize / 2) >= r_0), (r_0 + r + csize / 2) / 2, r)
ClampedR(u) ==
    LET r == Abs(rr(u))
        h == csize \div 2
    IN  IF r < params.r_0 /\ r + h >= params.r_0
        THEN Rat(params.r_0 + r + h, 2) ELSE Num(r)

\* maths.geometry.t_rw: travel time (years) of the material from the launch
\* radius to r at the ejection velocity; undefined inside the launch cavity
t_rw(r, w2, p) ==
    IF RGe(r, Num(p.r_0)) THEN RDiv(RSub(r, Num(p.r_0)), Num(p.v_0)) ELSE NaN

\* the array ts stores: the travel times in seconds
ComputeTs == [u \in Vox |-> RMul(t_rw(ClampedR(u), ww2(u), params), Num(Year))]

\* the array number_density stores: the steady-state density
ComputeND(ff) ==
    [u \in Vox |->
        LET nd0 == RMul(RMul(params.n_0,
                             RPow(rho(Num(rr(u)), params.r_0, params.mod_r_0), params.q_n)),
                        RPow(RDiv(rreff(u), Num(params.R_1)), params.qd_n))
            nd1 == Where(RGt(ff[u], Num(0)), nd0, NaN)
        IN  NanToNum(Where(REq(nd1, Num(0)), NaN, nd1))]

\* the ion fraction left unmasked outside the jet
ComputeXi_unmasked(ff) ==
    [u \in Vox |->
        RMul(RMul(params.x_0,
                  RPow(rho(ClampedR(u), params.r_0, params.mod_r_0), params.q_x)),
             RPow(RDiv(rreff(u), Num(params.R_1)), params.qd_x))]

\* the array ion_fraction stores
ComputeXi(ff) ==
    [u \in Vox |->
        LET xi0 == RMul(RMul(params.x_0,
                             RPow(rho(ClampedR(u), params.r_0, params.mod_r_0), params.q_x)),
                        RPow(RDiv(rreff(u), Num(params.R_1)), params.qd_x))
            xi1 == Where(RGt(ff[u], Num(0)), xi0, NaN)
        IN  NanToNum(Where(REq(xi1, Num(0)), NaN, xi1))]

\* indefinite_integral of temperature / vel: x_0 * mod_r_0 *
\* ((z + mod_r_0 - r_0) / mod_r_0) ** (q + 1) / (q + 1)
indefinite_integral(z, x_0, q) ==
    RDiv(RMul(Num(x_0 * params.mod_r_0),
              RPow(RDiv(RAdd(z, Num(params.mod_r_0 - params.r_0)), Num(params.mod_r_0)),
                   q + 1)),
         Num(q + 1))

\* the limits without the near edge raised to r_0
CellLimits_unclamped(u) ==
    LET z == Abs(rr(u))
        h == csize \div 2
    IN  IF z + h <= params.r_0 THEN [a |-> NaN, b |-> NaN]
        ELSE [a |-> Num(z - h), b |-> Num(z + h)]

\* the integration limits of voxel u: a, b = |r| -/+ csize / 2, both NaN where
\* b <= r_0, a raised to r_0 where a <= r_0
CellLimits(u) ==
    LET z == Abs(rr(u))
        h == csize \div 2
    IN  IF z + h <= params.r_0 THEN [a |-> NaN, b |-> NaN]
        ELSE IF z - h <= params.r_0 THEN [a |-> Num(params.r_0), b |-> Num(z + h)]
        ELSE [a |-> Num(z - h), b |-> Num(z + h)]

\* the cell average (F(b) - F(a)) / (b - a)
CellMean(u, x_0, q) ==
    LET l == CellLimits(u)
    IN  RDiv(RSub(indefinite_integral(l.b, x_0, q), indefinite_integral(l.a, x_0, q)),
             RSub(l.b, l.a))

\* the array temperature stores
ComputeTemp(ff) ==
    [u \in Vox |-> Where(RGt(ff[u], Num(0)), CellMean(u, params.T_0, params.q_T), NaN)]

\* v' = M v for a 3 x 3 matrix of integers and a vector of floats; every
\* product enters the sum, so one NaN component makes every component NaN
Dot3(M, vec) ==
    [i \in 1 .. 3 |->
        RAdd(RAdd(RMul(Num(M[i][1]), vec[1]), RMul(Num(M[i][2]), vec[2])),
             RMul(Num(M[i][3]), vec[3]))]

\* rot_x and rot_y of vel at i = radians(90 - inc) = 0 and pa = 0
rot_x == <<<<1, 0, 0>>, <<0, 1, 0>>, <<0, 0, 1>>>>
rot_y == <<<<1, 0, 0>>, <<0, 1, 0>>, <<0, 0, 1>>>>

\* the velocity of voxel u before the rotation: (vx, vy, vz).  vr is
\* sqrt(G M_star r_eff) / w * rho(r) ** q_v; the roots are not taken
\* (M_star * r_eff / w^2 is carried), vx = vr sin(phi), vy = vr cos(phi).
VoxelVel(u, ff) ==
    LET in  == RGt(ff[u], Num(0))
        vz0 == Where(in, CellMean(u, params.v_0, params.q_v), NaN)
        vr  == RMul(RDiv(RMul(Num(params.M_star), rreff(u)), Num(ww2(u))),
                    RPow(rho(Num(Abs(rr(u))), params.r_0, params.mod_r_0), params.q_v))
    IN  <<RNeg(Where(in, RMul(vr, Num(grid_rwp(u).wsin)), NaN)),
          Where(in, RMul(vr, Num(grid_rwp(u).wcos)), NaN),
          Where(in, Where(rr(u) > 0, vz0, RNeg(vz0)), NaN)>>

\* the 3-tuple of arrays vel stores: rot_x.dot(rot_y.dot(v)) per voxel
ComputeVel(ff) ==
    [i \in 1 .. 3 |-> [u \in Vox |-> Dot3(rot_x, Dot3(rot_y, VoxelVel(u, ff)))[i]]]

----------------------------------------------------------------------------
(* The properties.  Access(G) is the effect on the caches of reading the    *)
(* properties named in G: a property that finds its cache None computes and *)
(* stores its array, reading the fill factors through the fill_factor       *)
(* property, which stores the areas with them.  A property returns its      *)
(* stored array, or a value derived from the stored arrays c.                *)

AccessFields(G) ==
    /\ _ff' = IF _ff = None /\ (\/ "fill_factor" \in G
                                \/ "areas" \in G /\ _areas = None
                                \/ "number_density" \in G /\ _nd = None
                                \/ "ion_fraction" \in G /\ _xi = None
                                \/ "temperature" \in G /\ _temp = None
                                \/ "vel" \in G /\ _v = None)
              THEN ComputeFF ELSE _ff
    /\ _areas' = IF _ff = None /\ _ff' # None THEN ComputeAreas ELSE _areas
    /\ _ts' = IF _ts = None /\ G \cap {"ts", "chi_xyz", "number_density"} # {}
              THEN ComputeTs ELSE _ts
    /\ _nd' = IF _nd = None /\ "number_density" \in G THEN ComputeND(_ff') ELSE _nd
    /\ _xi' = IF _xi = None /\ "ion_fraction" \in G THEN ComputeXi(_ff') ELSE _xi
    /\ _temp' = IF _temp = None /\ "temperature" \in G THEN ComputeTemp(_ff') ELSE _temp
    /\ _v' = IF _v = None /\ "vel" \in G THEN ComputeVel(_ff') ELSE _v
    /\ nloops' = IF _ff = None /\ _ff' # None THEN nloops + 1 ELSE nloops

\* reading properties other than mass leaves the stored masses alone
Access(G) == AccessFields(G) /\ _m' = _m

\* the stored arrays
Cached == [ff |-> _ff, areas |-> _areas, ts |-> _ts, nd |-> _nd, xi |-> _xi,
           temp |-> _temp, v |-> _v]

\* the travel times taken from a model time of 0
ts_frozen(c) == [u \in Vox |-> RNeg(c.ts[u])]

\* JetModel.ts: self.time - self._ts
ts(c) == [u \in Vox |-> RSub(Num(time), c.ts[u])]

\* the burst factor undefined where the travel time is
chi_xyz_nan(c) ==
    [u \in Vox |-> IF IsNaN(ts(c)[u]) THEN NaN ELSE RDiv(JmlT(jml_t, ts(c)[u]), ss_jml)]

\* JetModel.chi_xyz: self._jml_t(self.ts) / self._ss_jml
chi_xyz(c) == [u \in Vox |-> RDiv(JmlT(jml_t, ts(c)[u]), ss_jml)]

\* JetModel.number_density: self._nd * self.chi_xyz
number_density(c) == [u \in Vox |-> RMul(c.nd[u], chi_xyz(c)[u])]

----------------------------------------------------------------------------
(* Construction *)

\* the configured count kept as it is
Even_keep(n) == n

\* (n + 1) // 2 * 2
Even(n) == ((n + 1) \div 2) * 2

\* maths.physics.n_0_from_mlr: the density at the jet base that carries the
\* mass-loss rate mlr through the base area at velocity v_0
n_0_from_mlr(mlr, v_0, w_0, mu) == Rat(mlr, v_0 * w_0 * w_0 * mu)

\* one geometry / physics configuration; counts and lengths in quarter cells
Geometry(w_0, r_0, mod_r_0, eps) ==
    [c_size |-> 4, w_0 |-> w_0, r_0 |-> r_0, mod_r_0 |-> mod_r_0, epsilon |-> eps]

Physics(q_n, q_T, q_x, q_v) ==
    [q_n |-> q_n, q_T |-> q_T, q_x |-> q_x, q_v |-> q_v, qd_n |-> 0, qd_x |-> 0,
     v_0 |-> 4, x_0 |-> Half, T_0 |-> 4, mu |-> 1, mlr |-> 2, M_star |-> 1, dist |-> 8,
     R_1 |-> 1, R_2 |-> 3, n_0 |-> None]

Join(f, g) == [k \in DOMAIN f \cup DOMAIN g |-> IF k \in DOMAIN f THEN f[k] ELSE g[k]]

\* an ejection.t_0 / hl / chi entry of the parameter file (years, years, factor)
Burst(t_0, hl, chi) == [t_0 |-> t_0, hl |-> hl, chi |-> chi]

\* add_ejection_event(t_0, peak_jml, half_life): the new closure and record
Event(t_0, peak_jml, half_life) ==
    [t_0 |-> t_0, peak_jml |-> peak_jml, half_life |-> half_life]

\* the events JetModel.__init__ adds for params.ejection
RECURSIVE InitEvents(_, _)
InitEvents(bursts, mlr) ==
    IF bursts = <<>> THEN <<>>
    ELSE LET k == Len(bursts)
             b == bursts[k]
         IN  Append(InitEvents(SubSeq(bursts, 1, k - 1), mlr),
                    Event(b.t_0 * Year, RMul(Num(mlr), Num(b.chi)), b.hl * Year))

NoRet == [op |-> "none"]

\* int(np.ceil(np.abs(a))) of a float a
Ceil(a) == (Abs(a.n) + a.d - 1) \div a.d

\* np.tan(1.571 - i_rads) at inc = 90 deg: the tangent of 1.571 - pi / 2
TanOffset == Rat(1, 4910)

\* JetModel.lz_to_grid_dims at inc = 90, pa = 0 (sin(pa) = 0, cos(pa) = 1):
\* the jet length l_z * dist back-projected on the axes, the jet's width at
\* its end added on both sides, every count made even
lz_to_grid_dims(p) ==
    LET l_xz_au == p.l_z[1] * p.dist
        xmax_au == Num(0)
        ymax_au == RMul(Num(l_xz_au), TanOffset)
        zmax_au == Num(l_xz_au)
        \* r of (xmax, ymax, zmax); at inc = 90 it does not depend on y
        rmax_au == xyz_to_rwp(0, 0, l_xz_au).r
        wmax_au == w_r(rmax_au, p.w_0, p.mod_r_0, p.r_0, p.epsilon)
        wmax_cells == Ceil(RDiv(wmax_au, Num(p.c_size)))
        n == [i \in 1 .. 3 |->
                Ceil(RDiv(<<xmax_au, ymax_au, zmax_au>>[i], Num(p.c_size)))
                    + 2 * wmax_cells]
    IN  [i \in 1 .. 3 |-> IF n[i] % 2 = 0 THEN n[i] ELSE n[i] + 1]

\* the (nx, ny, nz) JetModel.__init__ determines
GridDims(p) ==
    IF p.l_z # None THEN lz_to_grid_dims(p)
    ELSE <<Even(p.n_x), Even(p.n_y), Even(p.n_z)>>

\* self._params after JetModel.__init__: the cell counts and n_0 written
\* into the supplied dict
ParamsAfter(p) ==
    [p EXCEPT !.n_x = GridDims(p)[1], !.n_y = GridDims(p)[2], !.n_z = GridDims(p)[3],
              !.n_0 = n_0_from_mlr(p.mlr, p.v_0, p.w_0, p.mu)]

MaxCalls == 2    \* Pipeline.execute is called at most MaxCalls times

\* no call of Pipeline.execute so far
NoExec ==
    [pc |-> "idle", idx |-> 0, simobserve |-> FALSE, dryrun |-> FALSE, resume |-> FALSE,
     clobber |-> FALSE, entry |-> <<>>, effects |-> <<>>, error |-> "none", calls |-> 0]

\* the state JetModel.__init__ leaves for the supplied parameter record p

Construct(p) ==
    /\ nx = GridDims(p)[1] /\ ny = GridDims(p)[2] /\ nz = GridDims(p)[3]
    /\ params = ParamsAfter(p)
    /\ jml_t = InitEvents(p.ejection, p.mlr)
    /\ ejections = InitEvents(p.ejection, p.mlr)
    /\ time = 0
    /\ _ff = None /\ _areas = None /\ _ts = None /\ _m = None
    /\ _nd = None /\ _xi = None /\ _temp = None /\ _v = None
    /\ ret = NoRet
    /\ given = p
    /\ nloops = 0
    /\ saved = None
    /\ _arr_indexing = "ij"
    /\ fits = None
    /\ pipeline = None /\ runs = <<>> /\ disk = <<>> /\ plsaved = None /\ exec = NoExec

----------------------------------------------------------------------------
(* Configurations and operations *)

MaxTime == 2      \* the time setter is given 0 .. MaxTime
MaxEvents == 2    \* at most MaxEvents ejection events on a model

Geoms == {Geometry(6, 4, 12, 1), Geometry(6, 5, 12, 1)}

Phys == {Physics(-1, 0, 0, 0)}

BurstLists == {<<>>, <<Burst(1, 1, 3)>>}

\* the parameter records: dims are the (n_x, n_y, n_z) as configured (odd
\* counts are raised by the constructor)
Configs(dims, geoms, phys, bursts) ==
    {Join(Join([n_x |-> d[1], n_y |-> d[2], n_z |-> d[3], l_z |-> None,
                ejection |-> e], g), ph) :
        d \in dims, g \in geoms, ph \in phys, e \in bursts}

model == <<params, nx, ny, nz>>
cache == <<_ff, _areas, _ts, _m, _nd, _xi, _temp, _v>>
\* what the operations on one model leave alone: the caller's record of the
\* parameters, the model file, the class attribute and the .fits path
world == <<given, saved, _arr_indexing, fits, pipeline, runs, disk, plsaved, exec>>
\* the pipeline around the model
pipe == <<pipeline, runs, disk, plsaved, exec>>

\* JetModel.time (setter)
SetTime(t) ==
    /\ time' = t
    /\ ret' = NoRet
    /\ UNCHANGED <<model, jml_t, ejections, cache, nloops, world>>

\* JetModel.add_ejection_event
add_ejection_event(t_0, peak_jml, half_life) ==
    /\ Len(jml_t) < MaxEvents
    /\ jml_t' = Append(jml_t, Event(t_0, peak_jml, half_life))
    /\ ejections' = Append(ejections, Event(t_0, peak_jml, half_life))
    /\ ret' = NoRet
    /\ UNCHANGED <<model, time, cache, nloops, world>>

\* reading the properties G; the value returned is set by the caller
Read(G) ==
    /\ Access(G)
    /\ UNCHANGED <<model, time, jml_t, ejections, world>>

\* fill_factor running its voxel loop at every access
GetFillFactor_loop ==
    /\ _ff' = ComputeFF /\ _areas' = ComputeAreas /\ nloops' = nloops + 1
    /\ ret' = [op |-> "fill_factor", val |-> _ff']
    /\ UNCHANGED <<model, time, jml_t, ejections, _ts, _m, _nd, _xi, _temp, _v, world>>

GetFillFactor ==
    /\ Read({"fill_factor"})
    /\ ret' = [op |-> "fill_factor", val |-> _ff']

GetAreas ==
    /\ Read({"areas"})
    /\ ret' = [op |-> "areas", val |-> _areas']

GetTs ==
    /\ Read({"ts"})
    /\ ret' = [op |-> "ts", val |-> ts(Cached')]

GetChi ==
    /\ Read({"chi_xyz"})
    /\ ret' = [op |-> "chi_xyz", val |-> chi_xyz(Cached')]

GetNumberDensity ==
    /\ Read({"number_density"})
    /\ ret' = [op |-> "number_density", val |-> number_density(Cached')]

GetIonFraction ==
    /\ Read({"ion_fraction"})
    /\ ret' = [op |-> "ion_fraction", val |-> _xi']

GetTemperature ==
    /\ Read({"temperature"})
    /\ ret' = [op |-> "temperature", val |-> _temp']

GetVel ==
    /\ Read({"vel"})
    /\ ret' = [op |-> "vel", val |-> _v']

\* the (t_0, peak_jml, half_life) given to add_ejection_event
Events == {Event(0, Num(6), Year), Event(2 * Year, Num(4), 2 * Year)}

\* JetModel.jml_t (getter), called at time t
EvalJml(t) ==
    /\ ret' = [op |-> "jml_t", t |-> t, val |-> JmlT(jml_t, Num(t))]
    /\ UNCHANGED <<model, time, jml_t, ejections, cache, nloops, world>>

Mutate(events) ==
    \/ \E t \in 0 .. MaxTime : SetTime(t)
    \/ \E e \in events : add_ejection_event(e.t_0, e.peak_jml, e.half_life)

Fields ==
    \/ GetFillFactor
    \/ GetNumberDensity
    \/ GetIonFraction
    \/ GetTemperature
    \/ GetVel

----------------------------------------------------------------------------
(* Radiative transfer.  A numpy array is [shape, data], data a function on   *)
(* the 0-based index tuples of the shape; a frequency argument is the flag   *)
(* isinstance(freq, Iterable) with the frequencies.  The coefficient         *)
(* 0.018 * con.au * 1e2 and con.k / con.c ** 2 are taken as 1.  Physics      *)
(* keeps q_T = 0, the Gaunt-factor branch of a uniform temperature.          *)

Scalar(v) == [iter |-> FALSE, nus |-> <<v>>]
Array(vs) == [iter |-> TRUE, nus |-> vs]

\* the index tuples of an array of the given shape
Idx(shape) ==
    {t \in [1 .. Len(shape) -> 0 .. 3] : \A i \in 1 .. Len(shape) : t[i] < shape[i]}

NdArray(shape, data) == [shape |-> shape, data |-> data]

\* the sightline of pixel p = (i, k): the voxels (i, j, k), j along los_axis = 1
Los(a, p) == [j \in 0 .. ny - 1 |-> a[<<p[1], j, p[2]>>]]

RECURSIVE NanSum(_, _)

\* np.sum of the first n elements of s: a NaN makes the sum NaN
RECURSIVE NanSum_sum(_, _)
NanSum_sum(s, n) ==
    IF n = 0 THEN Num(0) ELSE RAdd(NanSum_sum(s, n - 1), s[n - 1])

\* np.nansum of the first n elements of s: NaN counts as 0
NanSum(s, n) ==
    IF n = 0 THEN Num(0)
    ELSE RAdd(NanSum(s, n - 1), IF IsNaN(s[n - 1]) THEN Num(0) ELSE s[n - 1])

\* np.nanmean of the n elements of s: NaN for a sightline of NaN only
NanMean(s, n) ==
    LET cnt == Cardinality({j \in 0 .. n - 1 : ~IsNaN(s[j])})
    IN  IF cnt = 0 THEN NaN ELSE RDiv(NanSum(s, n), Num(cnt))

\* np.nansum(a, axis=self.los_axis) of an (nx, ny, nz) array
NanSumLos(a) == NdArray(<<nx, nz>>, [p \in Pix |-> NanSum(Los(a, p), ny)])

\* dst[...] = src for a target of shape dshape: src is broadcast to dshape,
\* its trailing axes aligned with the target's, each of them of the target's
\* length or of length 1, its surplus leading axes of length 1
CanBroadcast(sshape, dshape) ==
    LET off == Len(dshape) - Len(sshape)
    IN  \A i \in 1 .. Len(sshape) :
            IF i + off >= 1 THEN sshape[i] \in {1, dshape[i + off]} ELSE sshape[i] = 1

BroadcastAt(src, dshape, t) ==
    LET off == Len(dshape) - Len(src.shape)
    IN  src.data[[i \in 1 .. Len(src.shape) |->
                     IF i + off >= 1 /\ src.shape[i] # 1 THEN t[i + off] ELSE 0]]

Raised == [raised |-> TRUE, val |-> None]
Returned(a) == [raised |-> FALSE, val |-> a]

\* a = np.empty(shape); for idx, ...: a[idx] = rows[idx]: ValueError at the
\* first row that cannot be broadcast to shape[1:], else every element of a
\* is assigned
AssignRows(shape, rows) ==
    LET dshape == Tail(shape)
    IN  IF \E k \in 1 .. Len(rows) : ~CanBroadcast(rows[k].shape, dshape)
        THEN Raised
        ELSE Returned(NdArray(shape,
                 [t \in Idx(shape) |-> BroadcastAt(rows[t[1] + 1], dshape, Tail(t))]))

\* the arrays the radiative-transfer calls read from the properties:
\* n_es = self.number_density * self.ion_fraction, self.temperature, the mean
\* path csize * con.au * (self.fill_factor / self.areas) through the
\* jet-filled part of a voxel, and the line-of-sight velocity self.vel[1]
FieldArrays(c) ==
    [n_es |-> [u \in Vox |-> RMul(number_density(c)[u], c.xi[u])],
     T    |-> c.temp,
     path |-> [u \in Vox |-> RMul(Num(csize), RDiv(c.ff[u], c.areas[u]))],
     vlos |-> IF c.v = None THEN None ELSE c.v[2]]

\* emission_measure: ems before the sum along the line of sight
ems_voxels(fl) == [u \in Vox |-> RMul(RPow(fl.n_es[u], 2), fl.path[u])]

\* JetModel.emission_measure
emission_measure(fl) == NanSumLos(ems_voxels(fl))

\* the root of a perfect square
ISqrt(n) == CHOOSE s \in 0 .. n : s * s = n

\* T ** -1.5 for a temperature that is a ratio of perfect squares
PowM32(T) ==
    IF T.nan THEN NaN
    ELSE Rat(T.d * ISqrt(T.d), T.n * ISqrt(T.n))

\* maths.physics.gff: the free-free Gaunt factor at frequency nu and
\* temperature T, here the positive ratio T / nu
gff(nu, T) == Rat(T, nu)

\* the frequency loop without the Gaunt factor
tau_ff_loop_nogff(fl, nu) ==
    [u \in Vox |->
        RMul(RMul(RMul(PowM32(fl.T[u]), Rat(1, nu * nu)), RPow(fl.n_es[u], 2)),
             fl.path[u])]

\* optical_depth_ff, frequency loop: tau of one frequency nu
tau_ff_loop(fl, nu) ==
    [u \in Vox |->
        RMul(RMul(RMul(RMul(PowM32(fl.T[u]), Rat(1, nu * nu)), RPow(fl.n_es[u], 2)),
                  fl.path[u]),
             gff(nu, params.T_0))]

\* optical_depth_ff, single frequency: tff before the collapse
tau_ff_single(fl, freq) ==
    [u \in Vox |->
        RMul(RMul(RMul(RMul(PowM32(fl.T[u]), Rat(1, freq * freq)), RPow(fl.n_es[u], 2)),
                  fl.path[u]),
             gff(freq, params.T_0))]

Cube(a) == NdArray(<<nx, ny, nz>>, a)

\* np.nansum(tau, axis=self.los_axis) if collapse, else tau
Collapsed(tau, collapse) == IF collapse THEN NanSumLos(tau) ELSE Cube(tau)

\* JetModel.optical_depth_ff(freq, collapse)
optical_depth_ff(fl, freq, collapse) ==
    IF freq.iter
    THEN AssignRows(IF ~collapse THEN <<Len(freq.nus), nx, ny, nx>>
                                 ELSE <<Len(freq.nus), nx, nz>>,
                    [k \in 1 .. Len(freq.nus) |->
                        Collapsed(tau_ff_loop(fl, freq.nus[k]), collapse)])
    ELSE Returned(Collapsed(tau_ff_single(fl, freq.nus[1]), collapse))

\* np.exp(-x) for x >= 0, here 1 / (1 + x)
exp_neg(x) == RDiv(Num(1), RAdd(Num(1), x))

\* np.where(ts > 0., ts, np.NaN) on the sightline of pixel p
PositiveTemps(fl, p) ==
    [j \in 0 .. ny - 1 |-> Where(RGt(Los(fl.T, p)[j], Num(0)), Los(fl.T, p)[j], NaN)]

\* intensity_ff at one frequency nu (the body of the loop and the single
\* frequency branch): T_b = nanmean(ts) * (1 - exp(-tau)) with the collapsed
\* optical depth of the single-frequency call, iff = 2 nu^2 k T_b / c^2
Iff(fl, nu) ==
    NdArray(<<nx, nz>>,
        [p \in Pix |->
            RMul(Num(2 * nu * nu),
                 RMul(NanMean(PositiveTemps(fl, p), ny),
                      RSub(Num(1),
                           exp_neg(NanSum(Los(tau_ff_single(fl, nu), p), ny)))))])

\* JetModel.intensity_ff(freq)
intensity_ff(fl, freq) ==
    IF freq.iter
    THEN AssignRows(<<Len(freq.nus), nx, nz>>,
                    [k \in 1 .. Len(freq.nus) |-> Iff(fl, freq.nus[k])])
    ELSE Returned(Iff(fl, freq.nus[1]))

\* np.arctan(csize * con.au / (dist * con.parsec)) ** 2. / 1e-26: the solid
\* angle of a pixel, the small angle taken for its arc tangent
SolidAngle == RPow(Rat(csize, params.dist), 2)

\* flux_ff at one frequency: the intensity of the single-frequency call
\* times the solid angle of a pixel
Fs(fl, nu) ==
    NdArray(<<nx, nz>>, [p \in Pix |-> RMul(Iff(fl, nu).data[p], SolidAngle)])

\* JetModel.flux_ff(freq)
flux_ff(fl, freq) ==
    IF freq.iter
    THEN AssignRows(<<Len(freq.nus), nx, nz>>,
                    [k \in 1 .. Len(freq.nus) |-> Fs(fl, freq.nus[k])])
    ELSE Returned(Fs(fl, freq.nus[1]))

\* maths.rrls.rrl_nu_0 of the line: its rest frequency
RrlNu0 == 1

\* maths.rrls.kappa_l: the LTE line opacity of voxel u at frequency f, from
\* the electron density, the temperature and the line profile phi_v(f) of
\* the Doppler shifted rest frequency.  Here n_es^2 / T times a Lorentzian
\* centred on the rest frequency; the line-of-sight velocity enters through
\* its NaN only.
kappa_l(fl, f, u) ==
    IF IsNaN(fl.vlos[u]) THEN NaN
    ELSE RMul(RDiv(RPow(fl.n_es[u], 2), fl.T[u]),
              Rat(1, 1 + (f - RrlNu0) * (f - RrlNu0)))

\* optical_depth_rrl: taus of one frequency before the collapse (the loop
\* and the single frequency branch): kappa_rrl_lte * path length
tau_rrl(fl, f) == [u \in Vox |-> RMul(kappa_l(fl, f, u), fl.path[u])]

\* JetModel.optical_depth_rrl(rrl, freq, collapse) for the line rrl
optical_depth_rrl(fl, freq, collapse) ==
    IF freq.iter
    THEN AssignRows(IF ~collapse THEN <<Len(freq.nus), nx, nz>>
                                 ELSE <<Len(freq.nus), nx, ny, nz>>,
                    [k \in 1 .. Len(freq.nus) |->
                        Collapsed(tau_rrl(fl, freq.nus[k]), collapse)])
    ELSE Returned(Collapsed(tau_rrl(fl, freq.nus[1]), collapse))

\* the properties the free-free calls read, and those the line call reads
FFReads == {"number_density", "ion_fraction", "temperature", "fill_factor", "areas"}
RRLReads == FFReads \cup {"vel"}

Result(op, freq, collapse, r) ==
    [op |-> op, freq |-> freq, collapse |-> collapse, raised |-> r.raised, val |-> r.val]

EmissionMeasure ==
    /\ Read({"number_density", "ion_fraction", "fill_factor", "areas"})
    /\ ret' = [op |-> "emission_measure", val |-> emission_measure(FieldArrays(Cached'))]

OpticalDepthFF(freq, collapse) ==
    /\ Read(FFReads)
    /\ ret' = Result("optical_depth_ff", freq, collapse,
                     optical_depth_ff(FieldArrays(Cached'), freq, collapse))

IntensityFF(freq) ==
    /\ Read(FFReads)
    /\ ret' = Result("intensity_ff", freq, TRUE, intensity_ff(FieldArrays(Cached'), freq))

FluxFF(freq) ==
    /\ Read(FFReads)
    /\ ret' = Result("flux_ff", freq, TRUE, flux_ff(FieldArrays(Cached'), freq))

OpticalDepthRRL(freq, collapse) ==
    /\ Read(RRLReads)
    /\ ret' = Result("optical_depth_rrl", freq, collapse,
                     optical_depth_rrl(FieldArrays(Cached'), freq, collapse))

\* The model, its time and ejection events, and its cached fields
Init == \E p \in Configs({<<2, 1, 4>>}, Geoms, Phys, BurstLists) :
            Construct(p)

Next == Mutate({Event(0, Num(6), Year)}) \/ Fields

Spec == Init /\ [][Next]_vars

\* The mass-loss rate function and the burst factor
InitJml == \E p \in Configs({<<2, 2, 4>>}, Geoms, Phys, BurstLists) : Construct(p)

NextJml ==
    \/ Mutate(Events)
    \/ GetTs
    \/ GetChi
    \/ GetNumberDensity
    \/ \E t \in 0 .. MaxTime * Year : EvalJml(t)

SpecJml == InitJml /\ [][NextJml]_vars

\* The fill factors over grid shapes and jet geometries
GeomDims == {<<2, 2, 2>>, <<2, 2, 4>>, <<3, 4, 4>>, <<4, 2, 3>>}

GeomSet ==
    {Geometry(w_0, r_0, m, 1) : w_0 \in {3, 6}, r_0 \in {0, 3, 4, 5}, m \in {4, 12}}
        \cup {Geometry(w_0, r_0, 4, 2) : w_0 \in {3, 6}, r_0 \in {0, 3, 4, 5}}

\* a wider grid around a jet launched at 1.25 cells from the origin
WideConfigs == Configs({<<6, 4, 6>>}, {Geometry(6, 5, 12, 1)}, Phys, {<<>>})

\* configurations giving the jet length grid.l_z (arcsec) at dist = 8 pc;
\* l_z is None or the one-element tuple of the length
LzConfigs ==
    {[p EXCEPT !.l_z = <<l>>] :
        p \in Configs({<<2, 2, 2>>, <<3, 3, 3>>}, {Geometry(6, 4, 12, 1)}, Phys, {<<>>}),
        l \in {1, 2}}

InitGeom ==
    \E p \in Configs(GeomDims, GeomSet, Phys, {<<>>}) \cup WideConfigs \cup LzConfigs :
        Construct(p)

NextGeom == GetFillFactor \/ GetAreas

SpecGeom == InitGeom /\ [][NextGeom]_vars

\* The radiative-transfer calls over grid shapes and frequency arguments
Freqs == {1, 2}

FreqArgs == {Scalar(v) : v \in Freqs} \cup {Array(<<v>>) : v \in Freqs} \cup {Array(<<1, 2>>)}

\* a cube-shaped grid whose voxels all straddle the launch radius, a grid
\* longer along the jet with a layer of voxels inside the launch cavity, and
\* a grid deeper along the line of sight than the jet is wide
RTConfigs ==
    Configs({<<2, 2, 2>>}, {Geometry(6, 4, 12, 1)}, Phys, {<<Burst(1, 1, 3)>>})
        \cup Configs({<<2, 2, 4>>}, {Geometry(6, 5, 12, 1)}, Phys, {<<Burst(1, 1, 3)>>})
        \cup Configs({<<2, 4, 2>>}, {Geometry(2, 0, 12, 1)}, Phys, {<<Burst(1, 1, 3)>>})

InitRT == \E p \in RTConfigs : Construct(p)

NextRT ==
    \/ \E t \in {0, MaxTime} : SetTime(t)
    \/ EmissionMeasure
    \/ \E f \in FreqArgs, c \in BOOLEAN : OpticalDepthFF(f, c)
    \/ \E f \in FreqArgs : IntensityFF(f)
    \/ \E f \in FreqArgs : FluxFF(f)
    \/ \E f \in FreqArgs, c \in BOOLEAN : OpticalDepthRRL(f, c)

SpecRT == InitRT /\ [][NextRT]_vars

\* The cached arrays between time changes, new events and field reads
InitCache ==
    \E p \in Configs({<<2, 1, 4>>}, {Geometry(6, 5, 12, 1)}, Phys, BurstLists) :
        Construct(p)

NextCache ==
    \/ Mutate(Events)
    \/ GetFillFactor
    \/ GetAreas
    \/ GetNumberDensity
    \/ GetIonFraction
    \/ GetTemperature

SpecCache == InitCache /\ [][NextCache]_vars

----------------------------------------------------------------------------
(* Mass *)

\* n_z of the z-layer idz in the loop of mass: int(min(|z|, |z + 1|)) of
\* z = round(grid z / csize) = idz - nz // 2
LayerN(idz) ==
    LET z == idz - nz \div 2
    IN  IF Abs(z) < Abs(z + 1) THEN Abs(z) ELSE Abs(z + 1)

\* the loop of mass divides Python floats: constant has the divisor
\* r_0 ** (2 eps), 0.0 for r_0 = 0 and eps > 0, and m_cell = mass_slice /
\* vol_zlayer has vol_zlayer = 0.0 in the layer with n_z + 1 == r_0 (r_0 in
\* cells, i.e. geometry.r_0 / grid.c_size); either raises ZeroDivisionError
MassRaises ==
    \/ params.r_0 = 0 /\ params.epsilon > 0
    \/ \E idz \in 0 .. nz - 1 : csize * (LayerN(idz) + 1) = params.r_0

\* ms of mass: number_density * (csize * con.au * 1e2) ** 3 * mu *
\* atomic_mass('H') * fill_factor, NaN where fill_factor > 0 is False
ComputeMass(c) ==
    [u \in Vox |->
        Where(RGt(c.ff[u], Num(0)),
              RMul(RMul(RMul(number_density(c)[u], Num(csize * csize * csize)),
                        Num(params.mu)),
                   c.ff[u]),
              NaN)]

\* JetModel.mass (getter)
GetMass ==
    IF _m # None
    THEN /\ ret' = [op |-> "mass", raised |-> FALSE, val |-> _m]
         /\ UNCHANGED <<model, time, jml_t, ejections, cache, nloops, world>>
    ELSE IF MassRaises
    THEN /\ Read({"fill_factor"})
         /\ ret' = [op |-> "mass", raised |-> TRUE, val |-> None]
    ELSE /\ AccessFields({"fill_factor", "number_density"})
         /\ _m' = ComputeMass(Cached')
         /\ ret' = [op |-> "mass", raised |-> FALSE, val |-> _m']
         /\ UNCHANGED <<model, time, jml_t, ejections, world>>

\* The masses between time changes, new events and density reads
InitMass == \E p \in Configs({<<2, 1, 4>>}, Geoms, Phys, BurstLists) : Construct(p)

NextMass ==
    \/ Mutate({Event(0, Num(6), Year)})
    \/ GetNumberDensity
    \/ GetMass

SpecMass == InitMass /\ [][NextMass]_vars

----------------------------------------------------------------------------
(* Persistence *)

\* JetModel.save(filename): the dict pickled to the model file
Save ==
    /\ saved' = [params |-> params, areas |-> _areas, ffs |-> _ff, time |-> time]
    /\ ret' = [op |-> "save"]
    /\ UNCHANGED <<model, time, jml_t, ejections, cache, nloops, given,
                   _arr_indexing, fits, pipe>>

\* JetModel.load_model(model_file).  fill_factor and areas are properties
\* without a setter: new_jm.fill_factor = loaded['ffs'] raises AttributeError
\* and the caller gets no model.  Otherwise the caller holds the model
\* cls(loaded['params']) built, its time set to the saved time.
LoadModel ==
    /\ saved # None
    /\ IF saved.ffs # None \/ saved.areas # None
       THEN /\ ret' = [op |-> "load_model", raised |-> TRUE, error |-> "AttributeError"]
            /\ UNCHANGED <<model, time, jml_t, ejections, cache, nloops, world>>
       ELSE /\ params' = ParamsAfter(saved.params)
            /\ nx' = GridDims(saved.params)[1]
            /\ ny' = GridDims(saved.params)[2]
            /\ nz' = GridDims(saved.params)[3]
            /\ jml_t' = InitEvents(saved.params.ejection, saved.params.mlr)
            /\ ejections' = InitEvents(saved.params.ejection, saved.params.mlr)
            /\ time' = saved.time
            /\ _ff' = None /\ _areas' = None /\ _ts' = None /\ _m' = None
            /\ _nd' = None /\ _xi' = None /\ _temp' = None /\ _v' = None
            /\ nloops' = 0
            /\ given' = saved.params
            /\ ret' = [op |-> "load_model", raised |-> FALSE, error |-> "none"]
            /\ UNCHANGED <<saved, _arr_indexing, fits, pipe>>

\* Saving and loading a model between time changes and fill-factor reads
InitSave == \E p \in Configs({<<2, 1, 4>>}, Geoms, Phys, BurstLists) : Construct(p)

NextSave ==
    \/ \E t \in 0 .. MaxTime : SetTime(t)
    \/ GetFillFactor
    \/ GetAreas
    \/ Save
    \/ LoadModel

SpecSave == InitSave /\ [][NextSave]_vars

----------------------------------------------------------------------------
(* The line-of-sight axis *)

\* an exception of the given type, with the parts of its message
RaisedError(type, message) ==
    [raised |-> TRUE, val |-> None, error |-> type, message |-> message]

Return(v) == [raised |-> FALSE, val |-> v, error |-> "none", message |-> <<>>]

\* los_axis falling back to axis 0 for every convention but 'ij'
los_axis_fallback(indexing) ==
    IF indexing = "ij" THEN Return(1) ELSE Return(0)

\* JetModel.los_axis for the value of JetModel._arr_indexing
los_axis(indexing) ==
    IF indexing = "ij" THEN Return(1)
    ELSE IF indexing = "xy" THEN Return(0)
    ELSE RaisedError("ValueError", <<"Unknown numpy array indexing (", indexing, ")">>)

\* JetModel.los_axis (getter)
GetLosAxis ==
    /\ ret' = Join([op |-> "los_axis", indexing |-> _arr_indexing],
                   los_axis(_arr_indexing))
    /\ UNCHANGED <<model, time, jml_t, ejections, cache, nloops, world>>

\* JetModel._arr_indexing = v
SetArrIndexing(v) ==
    /\ _arr_indexing' = v
    /\ ret' = NoRet
    /\ UNCHANGED <<model, time, jml_t, ejections, cache, nloops, given, saved, fits, pipe>>

Indexings == {"ij", "xy", "yx", "F", ""}

\* The axis convention between time changes and new events
InitLos == \E p \in Configs({<<2, 1, 4>>}, Geoms, Phys, BurstLists) : Construct(p)

NextLos ==
    \/ Mutate(Events)
    \/ \E v \in Indexings : SetArrIndexing(v)
    \/ GetLosAxis

SpecLos == InitLos /\ [][NextLos]_vars

----------------------------------------------------------------------------
(* Saving images.  The astropy calls (SkyCoord, fits.PrimaryHDU, writeto) are *)
(* taken to succeed; the image written is the pair of its type and data.      *)

ImageTypes == {"flux", "tau", "em", "intensity"}

\* freq=None, the default of save_fits
NoFreq == [iter |-> FALSE, nus |-> <<>>]

\* s[i] of a Python sequence: a negative i counts from the end
PyIndex(s, i) == IF i < 0 THEN s[Len(s) + i + 1] ELSE s[i + 1]

\* save_fits, the keywords of the spectral axis of a 'flux', 'tau' or
\* 'intensity' image: for 3-D data nchan = len(freq), chan_width =
\* freq[1] - freq[0] (1. for one channel), CRPIX3 = nchan / 2. + 0.5,
\* CRVAL3 = freq[len(freq) // 2 - 1] + chan_width / 2, CDELT3 = chan_width;
\* for 2-D data CDELT3 = 1., CRPIX3 = 0.5, CRVAL3 = freq[0]; none for 'em'
spectral_header(image_type, ndims, freq) ==
    IF image_type = "em" THEN None
    ELSE IF ndims = 3
    THEN LET nchan == Len(freq)
             chan_width == IF nchan # 1 THEN freq[2] - freq[1] ELSE 1
         IN  [CDELT3 |-> Num(chan_width),
              CRPIX3 |-> Rat(nchan + 1, 2),
              CRVAL3 |-> RAdd(Num(PyIndex(freq, Len(freq) \div 2 - 1)), Rat(chan_width, 2))]
    ELSE [CDELT3 |-> Num(1), CRPIX3 |-> Half, CRVAL3 |-> Num(freq[1])]

\* save_fits testing the number of dimensions before the image type
save_fits_dims_first(data, image_type, freq) ==
    LET ndims == Len(data.shape)
    IN  IF ndims \notin {2, 3}
        THEN RaisedError("ValueError", <<"Unexpected number of data dimensions", ndims>>)
        ELSE IF image_type \notin ImageTypes
        THEN RaisedError("ValueError", <<"arg image_type must be one of", image_type>>)
        ELSE IF image_type \in {"flux", "tau", "intensity"} /\ ~freq.iter
        THEN RaisedError("TypeError", <<"freq">>)
        ELSE Return([image_type |-> image_type, data |-> data,
                     hdr |-> spectral_header(image_type, ndims, freq.nus)])

\* JetModel.save_fits(data, filename, image_type, freq): the exception it
\* raises, or the image it writes to filename.  The header of a 'flux', 'tau'
\* or 'intensity' image takes len(freq) for 3-D data and freq[0] for 2-D
\* data, a TypeError for a freq that is a float or None.
save_fits(data, image_type, freq) ==
    LET ndims == Len(data.shape)
    IN  IF image_type \notin ImageTypes
        THEN RaisedError("ValueError", <<"arg image_type must be one of", image_type>>)
        ELSE IF ndims \notin {2, 3}
        THEN RaisedError("ValueError", <<"Unexpected number of data dimensions", ndims>>)
        ELSE IF image_type \in {"flux", "tau", "intensity"} /\ ~freq.iter
        THEN RaisedError("TypeError", <<"freq">>)
        ELSE Return([image_type |-> image_type, data |-> data,
                     hdr |-> spectral_header(image_type, ndims, freq.nus)])

\* a direct call of save_fits
SaveFits(data, image_type, freq) ==
    LET o == save_fits(data, image_type, freq)
    IN  /\ fits' = IF o.raised THEN fits ELSE o.val
        /\ ret' = [op |-> "save_fits", image_type |-> image_type,
                   ndims |-> Len(data.shape), freq |-> freq,
                   raised |-> o.raised, error |-> o.error, message |-> o.message]
        /\ UNCHANGED <<model, time, jml_t, ejections, cache, nloops, given, saved,
                       _arr_indexing, pipe>>

\* the end of a radiative-transfer call given a savefits path:
\* if savefits: self.save_fits(result, savefits, image_type, freq); return result
\* r is what the call computed
SaveAndReturn(op, freq, r, image_type) ==
    LET o == IF r.raised THEN RaisedError("ValueError", <<>>)
             ELSE save_fits(r.val, image_type, freq)
    IN  /\ fits' = IF o.raised THEN fits ELSE o.val
        /\ ret' = [op |-> op, freq |-> freq, collapse |-> TRUE, savefits |-> TRUE,
                   raised |-> o.raised, error |-> o.error,
                   val |-> IF o.raised THEN None ELSE r.val]
        /\ UNCHANGED <<model, time, jml_t, ejections, given, saved, _arr_indexing, pipe>>

\* optical_depth_ff(freq, savefits=path)
OpticalDepthFFSave(freq) ==
    /\ Access(FFReads)
    /\ SaveAndReturn("optical_depth_ff", freq,
                     optical_depth_ff(FieldArrays(Cached'), freq, TRUE), "tau")

\* intensity_ff(freq, savefits=path)
IntensityFFSave(freq) ==
    /\ Access(FFReads)
    /\ SaveAndReturn("intensity_ff", freq,
                     intensity_ff(FieldArrays(Cached'), freq), "intensity")

\* flux_ff(freq, savefits=path)
FluxFFSave(freq) ==
    /\ Access(FFReads)
    /\ SaveAndReturn("flux_ff", freq, flux_ff(FieldArrays(Cached'), freq), "flux")

\* data arrays of 0 to 4 dimensions
DataArrays ==
    {NdArray(sh, [t \in Idx(sh) |-> Num(1)]) :
        sh \in {<<>>, <<2>>, <<2, 2>>, <<1, 2, 2>>, <<1, 2, 2, 2>>}}

\* Images saved directly and by the free-free calls
InitFits ==
    \E p \in Configs({<<2, 2, 4>>}, {Geometry(6, 5, 12, 1)}, Phys, {<<Burst(1, 1, 3)>>}) :
        Construct(p)

NextFits ==
    \/ \E d \in DataArrays, it \in {"tau", "em", "rms"}, f \in {NoFreq, Array(<<1>>)} :
          SaveFits(d, it, f)
    \/ \E f \in {Scalar(1), Array(<<1, 2>>)} : OpticalDepthFFSave(f)
    \/ \E f \in {Scalar(1), Array(<<1, 2>>)} : IntensityFFSave(f)
    \/ \E f \in {Scalar(1), Array(<<1, 2>>)} : FluxFFSave(f)

SpecFits == InitFits /\ [][NextFits]_vars

----------------------------------------------------------------------------
(* Properties *)

\* C1: at every voxel where the fill factor is NaN, the number density, the
\* temperature, the ion fraction and each of the three velocity components
\* are NaN, at any model time and with any set of ejection events
C1_NaNFillFactorMasksFields ==
    \A u \in Vox :
        (_ff # None /\ IsNaN(_ff[u])) =>
            /\ ret.op = "number_density" => IsNaN(ret.val[u])
            /\ _nd # None => IsNaN(_nd[u])
            /\ _xi # None => IsNaN(_xi[u])
            /\ _temp # None => IsNaN(_temp[u])
            /\ _v # None => \A i \in 1 .. 3 : IsNaN(_v[i][u])

\* every field is stored, the density was read at a time > 0 with two events
\* on the model, and the grid has voxels outside and inside the jet
C1_Witness ==
    /\ _nd # None /\ _xi # None /\ _temp # None /\ _v # None
    /\ ret.op = "number_density" /\ time > 0 /\ Len(jml_t) = 2
    /\ \E u \in Vox : IsNaN(_ff[u])
    /\ \E u \in Vox : ~IsNaN(ret.val[u]) /\ ~IsNaN(_temp[u]) /\ ~IsNaN(_v[3][u])

\* C2: fill_factor gives exactly 1 to every voxel whose 8 vertices all pass
\* the inside test and NaN to every voxel none of whose vertices passes it
C2_AllOrNoneInside ==
    _ff # None =>
        \A u \in Vox :
            /\ NVertsInside(u) = 8 => _ff[u] = Num(1)
            /\ NVertsInside(u) = 0 => IsNaN(_ff[u])

\* a computed grid with a voxel wholly inside, a voxel with no vertex inside
\* that the quick reject passed on to the vertex test, and one it rejected
C2_Witness ==
    /\ _ff # None
    /\ \E u \in Vox : NVertsInside(u) = 8 /\ _ff[u] = Num(1)
    /\ \E u \in Vox : NVertsInside(u) = 0 /\ ~QuickReject(u) /\ IsNaN(_ff[u])
    /\ \E u \in Vox : NVertsInside(u) = 0 /\ QuickReject(u)

\* C3: a voxel reaching the vertex test with 1 to 7 vertices inside gets fill
\* factor 0.5 and area 1; every computed fill factor is NaN, 0.5 or 1, every
\* area NaN or 1, and the area is NaN exactly where the fill factor is
C3_PartialHalf ==
    _ff # None =>
        \A u \in Vox :
            /\ (~QuickReject(u) /\ NVertsInside(u) \in 1 .. 7) =>
                   _ff[u] = Half /\ _areas[u] = Num(1)
            /\ _ff[u] \in {NaN, Half, Num(1)}
            /\ _areas[u] \in {NaN, Num(1)}
            /\ IsNaN(_areas[u]) <=> IsNaN(_ff[u])

\* a computed grid with a partially filled voxel, a full one and an empty one
C3_Witness ==
    /\ _ff # None /\ ret.op = "areas"
    /\ \E u \in Vox : ~QuickReject(u) /\ NVertsInside(u) \in 1 .. 7 /\ _ff[u] = Half
    /\ \E u \in Vox : _ff[u] = Num(1) /\ _areas[u] = Num(1)
    /\ \E u \in Vox : IsNaN(_ff[u]) /\ IsNaN(_areas[u])

\* C4: with exactly one ejection event (t_0, peak_jml, half_life) on the
\* model, jml_t(t_0) is the peak rate; when the event is the one burst of the
\* parameters, jml_t(t_0 years) / ss_jml is the configured chi
C4_PeakAtT0 ==
    (ret.op = "jml_t" /\ Len(jml_t) = 1 /\ ret.t = jml_t[1].t_0) =>
        /\ ret.val = jml_t[1].peak_jml
        /\ params.ejection # <<>> =>
               /\ ret.t = params.ejection[1].t_0 * Year
               /\ RDiv(ret.val, ss_jml) = Num(params.ejection[1].chi)

\* jml_t was read at t_0 of the single event of a model built with no burst
C4_Witness ==
    /\ ret.op = "jml_t" /\ Len(jml_t) = 1 /\ ret.t = jml_t[1].t_0
    /\ params.ejection = <<>> /\ ret.val = Num(4) /\ ret.t = 2 * Year

\* all orders of the events of a chain
RECURSIVE Orders(_)
Orders(chain) ==
    IF chain = <<>> THEN {<<>>}
    ELSE UNION {{Append(o, chain[i]) :
                    o \in Orders([j \in 1 .. Len(chain) - 1 |->
                                     IF j < i THEN chain[j] ELSE chain[j + 1]])} :
                i \in 1 .. Len(chain)}

\* C5: the value of jml_t(t) is the same for every order in which the events
\* on the model could have been added
C5_OrderIndependent ==
    ret.op = "jml_t" => \A o \in Orders(jml_t) : JmlT(o, Num(ret.t)) = ret.val

\* jml_t was read on a model with two different events, where both pulses
\* contribute to the value
C5_Witness ==
    /\ ret.op = "jml_t" /\ Len(jml_t) = 2 /\ jml_t[1] # jml_t[2]
    /\ ret.val # JmlT(<<jml_t[1]>>, Num(ret.t))
    /\ ret.val # JmlT(<<jml_t[2]>>, Num(ret.t))

\* C6: on a model built with no burst and with no event added, chi_xyz is 1
\* at every voxel at every model time, and number_density is the stored
\* steady-state density
C6_ZeroBurst ==
    (params.ejection = <<>> /\ jml_t = <<>>) =>
        /\ ret.op = "chi_xyz" => \A u \in Vox : ret.val[u] = Num(1)
        /\ ret.op = "number_density" => ret.val = _nd

\* the density of a zero-burst model read after the time was set to 2 years,
\* on a grid with voxels in the jet and voxels where the travel time is NaN
C6_Witness ==
    /\ params.ejection = <<>> /\ jml_t = <<>> /\ time = 2
    /\ ret.op = "number_density"
    /\ \E u \in Vox : ~IsNaN(ret.val[u])
    /\ \E u \in Vox : IsNaN(_ts[u])

\* the stored arrays as the radiative-transfer calls read them
Now == FieldArrays(Cached)

\* element k (from 0) of an array along its first axis
Row(a, k) ==
    NdArray(Tail(a.shape), [t \in Idx(Tail(a.shape)) |-> a.data[<<k>> \o t]])

\* what the call op returns for the scalar frequency v
ScalarCall(op, v, collapse) ==
    CASE op = "optical_depth_ff" -> optical_depth_ff(Now, Scalar(v), collapse)
      [] op = "intensity_ff" -> intensity_ff(Now, Scalar(v))
      [] op = "flux_ff" -> flux_ff(Now, Scalar(v))
      [] op = "optical_depth_rrl" -> optical_depth_rrl(Now, Scalar(v), collapse)

\* C7: the collapsed free-free calls with a one-element array [v] return an
\* array of shape (1, nx, nz) whose element 0 is the map the same call returns
\* for the scalar v
C7_ArrayOfOneIsScalar ==
    (/\ ret.op \in {"optical_depth_ff", "intensity_ff", "flux_ff"}
     /\ ret.freq.iter /\ Len(ret.freq.nus) = 1 /\ ret.collapse) =>
        /\ ~ret.raised
        /\ ret.val.shape = <<1, nx, nz>>
        /\ ~ScalarCall(ret.op, ret.freq.nus[1], TRUE).raised
        /\ ScalarCall(ret.op, ret.freq.nus[1], TRUE).val.shape = <<nx, nz>>
        /\ Row(ret.val, 0) = ScalarCall(ret.op, ret.freq.nus[1], TRUE).val

\* flux_ff([2]) returned a map with a pixel of positive flux and a pixel
\* whose sightline is empty, at a time when the burst raises the density
C7_Witness ==
    /\ ret.op = "flux_ff" /\ ret.freq = Array(<<2>>) /\ ~ret.raised /\ time = 2
    /\ \E p \in Pix : RGt(ret.val.data[<<0>> \o p], Num(0))
    /\ \E p \in Pix : IsNaN(ret.val.data[<<0>> \o p])

\* C8 as claimed: optical_depth_rrl with an array of K frequencies does not
\* raise and returns shape (K, nx, nz) if collapse, (K, nx, ny, nz) if not,
\* element k being the scalar call at frequency k
C8_RrlArrayIsScalarRows ==
    (ret.op = "optical_depth_rrl" /\ ret.freq.iter) =>
        /\ ~ret.raised
        /\ ret.val.shape = IF ret.collapse THEN <<Len(ret.freq.nus), nx, nz>>
                                           ELSE <<Len(ret.freq.nus), nx, ny, nz>>
        /\ \A k \in 1 .. Len(ret.freq.nus) :
               Row(ret.val, k - 1) = ScalarCall(ret.op, ret.freq.nus[k], ret.collapse).val

\* C9 as claimed: optical_depth_ff with an array of K frequencies and
\* collapse=False returns shape (K, nx, ny, nz), element k being the
\* uncollapsed scalar call at frequency k, whose sum along the line of sight
\* (NaN as 0) is the collapsed call
C9_CubePerFrequency ==
    (ret.op = "optical_depth_ff" /\ ret.freq.iter /\ ~ret.collapse) =>
        /\ ~ret.raised
        /\ ret.val.shape = <<Len(ret.freq.nus), nx, ny, nz>>
        /\ \A k \in 1 .. Len(ret.freq.nus) :
               /\ Row(ret.val, k - 1) = ScalarCall(ret.op, ret.freq.nus[k], FALSE).val
               /\ NanSumLos(Row(ret.val, k - 1).data)
                      = ScalarCall(ret.op, ret.freq.nus[k], TRUE).val

\* the sum of the elements j \in J of s, a NaN element making it NaN
RECURSIVE SumOver(_, _)
SumOver(s, J) ==
    IF J = {} THEN Num(0)
    ELSE LET j == CHOOSE x \in J : \A y \in J : x >= y
         IN  RAdd(SumOver(s, J \ {j}), s[j])

\* the voxels of the sightline of pixel p that are in the jet
InJet(p) == {j \in 0 .. ny - 1 : ~IsNaN(_ff[<<p[1], j, p[2]>>])}

\* the maps a call returned with the voxel terms they sum: emission_measure,
\* and optical_depth_ff with collapse=True per frequency
SummedMaps ==
    IF ret.op = "emission_measure"
    THEN {[map |-> ret.val.data, terms |-> ems_voxels(Now)]}
    ELSE IF ret.op = "optical_depth_ff" /\ ret.collapse /\ ~ret.freq.iter
    THEN {[map |-> ret.val.data, terms |-> tau_ff_single(Now, ret.freq.nus[1])]}
    ELSE IF ret.op = "optical_depth_ff" /\ ret.collapse
    THEN {[map |-> Row(ret.val, k - 1).data, terms |-> tau_ff_loop(Now, ret.freq.nus[k])] :
             k \in 1 .. Len(ret.freq.nus)}
    ELSE {}

\* C10 as claimed: every pixel of emission_measure and of the collapsed
\* optical_depth_ff is non-NaN and is the sum of the terms of the in-jet
\* voxels (fill factor not NaN) of its sightline, 0 if there is none
C10_SumOfInJetVoxels ==
    \A m \in SummedMaps : \A p \in Pix :
        /\ ~IsNaN(m.map[p])
        /\ m.map[p] = SumOver(Los(m.terms, p), InJet(p))

\* C10: every pixel of emission_measure and of the collapsed optical_depth_ff
\* is non-NaN and is the sum of the non-NaN terms of its sightline, 0 if there
\* is none; the term of a voxel whose fill factor is NaN is NaN
C10_NaNContributesZero ==
    \A m \in SummedMaps : \A p \in Pix :
        LET defined == {j \in 0 .. ny - 1 : ~IsNaN(Los(m.terms, p)[j])}
        IN  /\ ~IsNaN(m.map[p])
            /\ defined \subseteq InJet(p)
            /\ m.map[p] = SumOver(Los(m.terms, p), defined)
            /\ defined = {} => m.map[p] = Num(0)

\* emission_measure returned a map with a positive pixel whose sightline has
\* voxels in the jet and voxels outside it
C10_Witness ==
    /\ ret.op = "emission_measure"
    /\ \E p \in Pix : /\ RGt(ret.val.data[p], Num(0))
                      /\ InJet(p) # {} /\ InJet(p) # 0 .. ny - 1

\* C11 as claimed: load_model after save returns without error a model with
\* the saved parameters and the saved time, and, when the fill factors had
\* been computed before the save, with the saved fill factors and areas
\* installed and the voxel loop not run
C11_LoadRestores ==
    ret.op = "load_model" =>
        /\ ~ret.raised
        /\ params = saved.params /\ time = saved.time
        /\ saved.ffs # None =>
               _ff = saved.ffs /\ _areas = saved.areas /\ nloops = 0

\* load_model of a file saved before the fill factors were computed returns
\* a model with the saved parameters and time
C11_LoadWithoutFillFactors ==
    (ret.op = "load_model" /\ saved.ffs = None) =>
        /\ ~ret.raised
        /\ params = saved.params /\ time = saved.time
        /\ _ff = None /\ _areas = None

\* C12 as claimed: whenever mass returns an array, it is number_density *
\* cell volume * mu * m_H * fill_factor of the number_density the model
\* returns at that moment, NaN where the fill factor is not > 0
C12_MassFollowsDensity ==
    (ret.op = "mass" /\ ~ret.raised) => ret.val = ComputeMass(Cached)

\* C13 as claimed: accessing mass never raises, a z-layer whose outer edge
\* coincides with r_0 included
C13_MassNeverRaises ==
    ret.op = "mass" => ~ret.raised

\* C14: the voxel loop runs at the first access of fill_factor or areas, and
\* only then; both arrays are stored together and every access of either
\* property returns the stored array
C14_VoxelLoopRunsOnce ==
    /\ nloops = (IF _ff = None THEN 0 ELSE 1)
    /\ (_ff = None) <=> (_areas = None)
    /\ _ff # None => _ff = ComputeFF /\ _areas = ComputeAreas
    /\ ret.op = "fill_factor" => ret.val = _ff /\ _ff # None
    /\ ret.op = "areas" => ret.val = _areas /\ _areas # None

\* areas was read after the loop had run, the time had been set, two events
\* added and the density read
C14_Witness ==
    /\ ret.op = "areas" /\ nloops = 1
    /\ time > 0 /\ Len(jml_t) = 2 /\ _nd # None

\* C15: number_density returns the stored steady-state density times
\* jml_t(time - travel time) / ss_jml at the current model time, at the first
\* access as at any later one; the stored steady-state density, temperature
\* and ion fraction do not depend on the time set
C15_DensityScalesWithChi ==
    /\ ret.op = "number_density" =>
           \A u \in Vox :
               ret.val[u] = RMul(_nd[u],
                                 RDiv(JmlT(jml_t, RSub(Num(time), _ts[u])), ss_jml))
    /\ _nd # None => _nd = ComputeND(_ff)
    /\ _temp # None => _temp = ComputeTemp(_ff)
    /\ _xi # None => _xi = ComputeXi(_ff)

\* the density was read at one year, at the peak of the configured burst,
\* with temperature and ion fraction stored: a voxel at the launch radius
\* has three times its steady-state density
C15_Witness ==
    /\ ret.op = "number_density" /\ time = Year /\ Len(jml_t) = 1
    /\ _temp # None /\ _xi # None
    /\ \E u \in Vox : ~IsNaN(_nd[u]) /\ ret.val[u] = RMul(Num(3), _nd[u])

\* C16: after construction nx, ny and nz are even; without grid.l_z each is
\* the configured count if that is even and one more if it is odd; with
\* grid.l_z the counts of lz_to_grid_dims replace the configured ones in the
\* model and in its parameters
C16_EvenCellCounts ==
    /\ nx % 2 = 0 /\ ny % 2 = 0 /\ nz % 2 = 0
    /\ <<params.n_x, params.n_y, params.n_z>> = <<nx, ny, nz>>
    /\ given.l_z = None =>
           <<nx, ny, nz>> = <<given.n_x + (given.n_x % 2), given.n_y + (given.n_y % 2),
                             given.n_z + (given.n_z % 2)>>
    /\ given.l_z # None =>
           /\ <<nx, ny, nz>> = <<lz_to_grid_dims(given)[1], lz_to_grid_dims(given)[2],
                                 lz_to_grid_dims(given)[3]>>
           /\ nx >= 2 /\ ny >= 2 /\ nz >= 2

\* a model built from a jet length: the counts differ from the configured
\* ones, and the fill factors were computed on the grid
C16_Witness ==
    /\ given.l_z # None /\ given.n_x = 3
    /\ nx # 4 /\ ny # 4 /\ nz # 4
    /\ ret.op = "fill_factor" /\ \E u \in Vox : _ff[u] = Num(1)


\* C17 as claimed: the parameter dict the caller supplied holds, after
\* construction and after every later operation, the entries it held before
C17_ParamsImmutable ==
    params = given


\* C19: los_axis returns 1 for the convention 'ij' and 0 for 'xy'; for any
\* other value it returns no axis and raises a ValueError whose message
\* holds that value
C19_LosAxisOrValueError ==
    ret.op = "los_axis" =>
        CASE ret.indexing = "ij" -> ~ret.raised /\ ret.val = 1
          [] ret.indexing = "xy" -> ~ret.raised /\ ret.val = 0
          [] OTHER -> /\ ret.raised /\ ret.error = "ValueError"
                      /\ \E i \in 1 .. Len(ret.message) : ret.message[i] = ret.indexing

\* los_axis was read, and raised, under the convention 'yx', on a model
\* whose time had been set
C19_Witness ==
    /\ ret.op = "los_axis" /\ ret.indexing = "yx" /\ _arr_indexing = "yx"
    /\ ret.raised /\ time > 0


\* what the call op returns without savefits for the frequency argument f
PlainCall(op, f) ==
    CASE op = "optical_depth_ff" -> optical_depth_ff(Now, f, TRUE)
      [] op = "intensity_ff" -> intensity_ff(Now, f)
      [] op = "flux_ff" -> flux_ff(Now, f)

\* C18 as claimed: a free-free call given a savefits path, with a scalar
\* frequency or with an array of frequencies, saves its image without
\* raising and returns the array the call returns without savefits
C18_SaveFitsCompletes ==
    (ret.op \in {"optical_depth_ff", "intensity_ff", "flux_ff"} /\ ret.savefits) =>
        /\ ~ret.raised
        /\ ret.val = PlainCall(ret.op, ret.freq).val
        /\ fits # None /\ fits.data = ret.val

\* a free-free call given a savefits path and an array of frequencies saves
\* its image and returns the array of the call without savefits
C18_ArrayCallSaves ==
    (/\ ret.op \in {"optical_depth_ff", "intensity_ff", "flux_ff"}
     /\ ret.savefits /\ ret.freq.iter) =>
        /\ ~ret.raised
        /\ ret.val = PlainCall(ret.op, ret.freq).val
        /\ fits # None /\ fits.data = ret.val

\* C20: a call of save_fits with an image_type outside 'flux', 'tau', 'em',
\* 'intensity' or with data of other than 2 or 3 dimensions raises
\* ValueError and leaves the file as it was; when both are wrong the error
\* is that of the image type
C20_SaveFitsRejects ==
    [][(/\ ret'.op = "save_fits"
        /\ ret'.image_type \notin ImageTypes \/ ret'.ndims \notin {2, 3}) =>
           /\ ret'.raised /\ ret'.error = "ValueError"
           /\ fits' = fits
           /\ ret'.image_type \notin ImageTypes =>
                  ret'.message = <<"arg image_type must be one of", ret'.image_type>>]_vars

\* save_fits raised for 4-D data of an unknown image type, after an image
\* had been written
C20_Witness ==
    /\ ret.op = "save_fits" /\ ret.raised
    /\ ret.ndims = 4 /\ ret.image_type = "rms"
    /\ fits # None

----------------------------------------------------------------------------
(* Recombination-line intensity and flux.                                    *)

\* maths.rrls.line_intensity_lte(freq, av_temp, tau_ff, tau_rrl): the
\* intensity of line and continuum together, the Rayleigh-Jeans brightness
\* 2 nu^2 k T / c^2 of the sum of the two optical depths, here in the
\* optically thin limit 1 - exp(-tau) = tau
line_intensity_lte(nu, T, t_ff, t_rrl) ==
    RMul(Num(2 * nu * nu), RMul(T, RAdd(t_ff, t_rrl)))

\* JetModel.intensity_rrl(rrl, nu) for a scalar nu: the mean positive
\* temperature and the collapsed optical depths of line and continuum
Irrl(fl, nu) ==
    NdArray(<<nx, nz>>,
        [p \in Pix |->
            line_intensity_lte(nu, NanMean(PositiveTemps(fl, p), ny),
                               NanSum(Los(tau_ff_single(fl, nu), p), ny),
                               NanSum(Los(tau_rrl(fl, nu), p), ny))])

\* flux_rrl keeps every flux_ff added
flux_rrl_row_keep(fl, nu, contsub) ==
    NdArray(<<nx, nz>>,
        [p \in Pix |-> RAdd(RMul(Irrl(fl, nu).data[p], SolidAngle), Fs(fl, nu).data[p])])

\* flux_rrl at one frequency (the body of the loop and the single frequency
\* branch): i_rrl times the solid angle of a pixel; if not contsub:
\* flux += self.flux_ff(nu)
flux_rrl_row(fl, nu, contsub) ==
    NdArray(<<nx, nz>>,
        [p \in Pix |->
            IF contsub THEN RMul(Irrl(fl, nu).data[p], SolidAngle)
            ELSE RAdd(RMul(Irrl(fl, nu).data[p], SolidAngle), Fs(fl, nu).data[p])])

\* JetModel.flux_rrl(rrl, freq, contsub)
flux_rrl(fl, freq, contsub) ==
    IF freq.iter
    THEN AssignRows(<<Len(freq.nus), nx, nz>>,
                    [k \in 1 .. Len(freq.nus) |-> flux_rrl_row(fl, freq.nus[k], contsub)])
    ELSE Returned(flux_rrl_row(fl, freq.nus[1], contsub))

\* the keyword contsub of a call: <<>> when the caller leaves it out, else
\* the one-element tuple of its value; the parameter defaults to True
Contsub(kw) == IF kw = <<>> THEN TRUE ELSE kw[1]

FluxRRL(freq, kw) ==
    /\ Read(RRLReads)
    /\ ret' = [op |-> "flux_rrl", freq |-> freq, contsub |-> kw,
               r |-> flux_rrl(FieldArrays(Cached'), freq, Contsub(kw))]

InitLine == \E p \in RTConfigs : Construct(p)

NextLine ==
    \/ \E t \in 0 .. MaxTime : SetTime(t)
    \/ \E f \in FreqArgs, kw \in {<<>>, <<TRUE>>, <<FALSE>>} : FluxRRL(f, kw)

SpecLine == InitLine /\ [][NextLine]_vars

\* element t of what flux_ff returns for the frequency of element t of a
\* flux_rrl result: flux_ff(freq) for a scalar freq, flux_ff(freq[k]) for
\* row k of an array call
FluxFFAt(freq, t) ==
    IF freq.iter THEN flux_ff(Now, Scalar(freq.nus[t[1] + 1])).val.data[Tail(t)]
    ELSE flux_ff(Now, freq).val.data[t]

\* C21: flux_rrl with contsub=False returns, element by element, what it
\* returns with contsub=True plus flux_ff at the frequency of the element, in
\* the scalar and in the array call, and the call that leaves contsub out
\* returns what contsub=True returns
C21_ContsubByDefault ==
    ret.op = "flux_rrl" =>
        /\ ~ret.r.raised
        /\ ret.r.val.shape = flux_rrl(Now, ret.freq, TRUE).val.shape
        /\ ret.contsub = <<>> => ret.r.val = flux_rrl(Now, ret.freq, TRUE).val
        /\ ret.contsub = <<FALSE>> =>
               \A t \in Idx(ret.r.val.shape) :
                   ret.r.val.data[t] =
                       RAdd(flux_rrl(Now, ret.freq, TRUE).val.data[t], FluxFFAt(ret.freq, t))

\* flux_rrl([1, 2], contsub=False) returned a map with a pixel where the
\* continuum flux is positive and the line flux differs from the total
C21_Witness ==
    /\ ret.op = "flux_rrl" /\ ret.freq = Array(<<1, 2>>) /\ ret.contsub = <<FALSE>>
    /\ ~ret.r.raised
    /\ \E t \in Idx(ret.r.val.shape) :
           /\ RGt(FluxFFAt(ret.freq, t), Num(0))
           /\ ret.r.val.data[t] # flux_rrl(Now, ret.freq, TRUE).val.data[t]

----------------------------------------------------------------------------
(* The temperature over launch radii and temperature indices.                *)

\* a uniform temperature (q_T = 0) and one rising linearly along the jet
TempPhys == {Physics(-1, 0, 0, 0), Physics(-1, 1, 0, 0)}

\* the grid shapes of the fill factors and one of three layers of voxels on
\* each side of the origin
InitTemp ==
    \E p \in Configs(GeomDims \cup {<<2, 2, 6>>}, GeomSet, TempPhys, {<<>>}) : Construct(p)

NextTemp == GetFillFactor \/ GetTemperature

SpecTemp == InitTemp /\ [][NextTemp]_vars

\* the mean over [lo, hi] of T(z) = T_0 * ((z + mod_r_0 - r_0) / mod_r_0) ** q_T
\* for q_T = 0 (T_0) and q_T = 1 (the value at the midpoint)
MeanT(lo, hi) ==
    IF params.q_T = 0 THEN Num(params.T_0)
    ELSE RMul(Num(params.T_0),
              RDiv(RAdd(Rat(lo + hi, 2), Num(params.mod_r_0 - params.r_0)),
                   Num(params.mod_r_0)))

----------------------------------------------------------------------------
(* Travel times and ion fractions around the launch radius.                  *)

\* an ion fraction rising linearly along the jet (q_x = 1)
InitClamp == \E p \in Configs(GeomDims, GeomSet, {Physics(-1, 0, 1, 0)}, {<<>>}) : Construct(p)

NextClamp == GetFillFactor \/ GetTs \/ GetIonFraction

SpecClamp == InitClamp /\ [][NextClamp]_vars

\* voxel u has its centroid below the launch radius and its far edge at or
\* beyond it
JustInside(u) ==
    Abs(rr(u)) < params.r_0 /\ Abs(rr(u)) + csize \div 2 >= params.r_0

\* the radius the claim gives voxel u
RadiusUsed(u) ==
    IF JustInside(u) THEN Rat(params.r_0 + Abs(rr(u)) + csize \div 2, 2)
    ELSE Num(Abs(rr(u)))

\* C23: the travel time ts stores and the ion fraction ion_fraction stores
\* at an in-jet voxel are those of the radius |r|, or of the midpoint
\* (r_0 + |r| + c_size/2) / 2 when |r| < r_0 <= |r| + c_size/2; for such a
\* voxel the radius lies in [r_0, |r| + c_size/2]: its travel time is defined
\* and between 0 and that of the far edge
C23_MidpointBelowLaunchRadius ==
    \A u \in Vox :
        /\ _ts # None =>
               /\ _ts[u] = RMul(t_rw(RadiusUsed(u), ww2(u), params), Num(Year))
               /\ JustInside(u) =>
                      /\ RGe(_ts[u], Num(0))
                      /\ RLe(_ts[u],
                             RMul(t_rw(Num(Abs(rr(u)) + csize \div 2), ww2(u), params),
                                  Num(Year)))
        /\ (_xi # None /\ RGt(_ff[u], Num(0))) =>
               _xi[u] = RMul(RMul(params.x_0,
                                  RPow(rho(RadiusUsed(u), params.r_0, params.mod_r_0),
                                       params.q_x)),
                             RPow(RDiv(rreff(u), Num(params.R_1)), params.qd_x))

\* both arrays are stored and an in-jet voxel with |r| < r_0 < |r| + c_size/2
\* has a positive travel time and an ion fraction above x_0
C23_Witness ==
    /\ _ts # None /\ _xi # None
    /\ \E u \in Vox :
           /\ JustInside(u) /\ Abs(rr(u)) + csize \div 2 > params.r_0
           /\ RGt(_ff[u], Num(0))
           /\ RGt(_ts[u], Num(0))
           /\ RGt(_xi[u], params.x_0)

----------------------------------------------------------------------------
(* The spectral axis of the cubes saved for the channels of a run.           *)

MaxChan == 4    \* a run has 1 .. MaxChan channels

\* ContinuumRun.nchan and ContinuumRun.chan_freqs: int(bandwidth / chanwidth)
\* channels from freq - bandwidth / 2. + chanwidth / 2. in steps of
\* chanwidth (bandwidth and chanwidth even)
chan_freqs(freq, bandwidth, chanwidth) ==
    [k \in 1 .. bandwidth \div chanwidth |->
        freq - bandwidth \div 2 + chanwidth \div 2 + (k - 1) * chanwidth]

\* the channel frequencies of runs of 1 .. MaxChan channels
ChanFreqs ==
    {chan_freqs(f, n * cw, cw) : f \in 10 .. 13, n \in 1 .. MaxChan, cw \in {2, 4}}

\* a cube of one 2 x 2 map per channel
ChanCube(freq) == NdArray(<<Len(freq), 2, 2>>, [t \in Idx(<<Len(freq), 2, 2>>) |-> Num(1)])

NextHdr ==
    \E freq \in ChanFreqs, it \in {"flux", "tau", "intensity", "em"} :
        SaveFits(ChanCube(freq), it, Array(freq))

SpecHdr == InitFits /\ [][NextHdr]_vars

\* C29: the cube saved by save_fits for N uniformly spaced channel
\* frequencies has a spectral header that gives every channel its frequency:
\* CRVAL3 + (p - CRPIX3) * CDELT3 = freq[p - 1] for p in 1 .. N
C29_SpectralHeaderConsistent ==
    (ret.op = "save_fits" /\ ~ret.raised /\ ret.ndims = 3 /\ ret.image_type # "em") =>
        \A p \in 1 .. Len(ret.freq.nus) :
            RAdd(fits.hdr.CRVAL3, RMul(RSub(Num(p), fits.hdr.CRPIX3), fits.hdr.CDELT3))
                = Num(ret.freq.nus[p])

\* the header is consistent for every even number of channels
C29_EvenChannelsConsistent ==
    (ret.op = "save_fits" /\ ~ret.raised /\ ret.ndims = 3 /\ ret.image_type # "em"
        /\ Len(ret.freq.nus) % 2 = 0) =>
        \A p \in 1 .. Len(ret.freq.nus) :
            RAdd(fits.hdr.CRVAL3, RMul(RSub(Num(p), fits.hdr.CRPIX3), fits.hdr.CDELT3))
                = Num(ret.freq.nus[p])

----------------------------------------------------------------------------
(* The quick reject of the voxel loop against the test of the 8 vertices.    *)

\* the voxel loop body without the quick reject
VoxelFill_all(u) ==
    LET s == NVertsInside(u)
    IN  IF s = 8 THEN [ff |-> Num(1), area |-> Num(1)]
        ELSE IF s = 0 THEN [ff |-> Num(0), area |-> Num(0)]
        ELSE [ff |-> Half, area |-> Num(1)]

\* C30: a voxel skipped by the quick reject (its centroid w exceeds
\* w(r_centroid) by more than half the cell diagonal) has none of its 8
\* vertices passing the inside test, so the stored fill factors are those of
\* the 8-vertex test run on every voxel
C30_QuickRejectKeepsClassification ==
    _ff # None =>
        /\ \A u \in Vox : QuickReject(u) => NVertsInside(u) = 0
        /\ _ff = [u \in Vox |-> LET f == VoxelFill_all(u).ff IN Where(RGt(f, Tiny), f, NaN)]

----------------------------------------------------------------------------
(* The pipeline: the runs of one model over epochs.  A path is the record of  *)
(* its model directory (a sequence of components), day, frequency and file    *)
(* name; a data product is kept as the model time its data was computed at.   *)
(* The images the runs write are kept in disk; the CASA tasks and the plots   *)
(* are taken to succeed.  Every run has a frequency (radiative_transfer).     *)

Home == "/home/user"    \* os.path.expanduser('~')

\* path.replace(home, '~')
TildePath(p) == [i \in 1 .. Len(p) |-> IF p[i] = Home THEN "~" ELSE p[i]]

Path(dcy, day, freq, file) == [dcy |-> dcy, day |-> day, freq |-> freq, file |-> file]

\* ContinuumRun.day: int(self.year * 365.)
Day(run) == run.year * 365

\* ContinuumRun.rt_dcy, fits_em, fits_tau, fits_flux and the model plot of
\* the day, os.path.dirname(run.rt_dcy) + "ModelPlot.pdf"
rt_dcy(run) == Path(run.dcy, Day(run), run.freq, "")
Artifacts == <<"ModelPlot.pdf", "EM", "Tau", "Flux">>
ArtifactPath(run, i) ==
    IF i = 1 THEN Path(run.dcy, Day(run), 0, Artifacts[1])
    ELSE Path(run.dcy, Day(run), run.freq, Artifacts[i])
fits_flux(run) == ArtifactPath(run, 4)

\* ContinuumRun.__init__ for a run with a frequency: the flags, and
\* simobserve False when the telescope is missing
ContinuumRun(dcy, year, freq, tscop) ==
    [year |-> year, dcy |-> dcy, freq |-> freq, tscop |-> tscop,
     completed |-> FALSE, radiative_transfer |-> TRUE, simobserve |-> tscop # None,
     products |-> {}, results |-> [flux |-> <<>>, imfit |-> <<>>]]

\* Pipeline.__init__(jetmodel, params): the paths, the model directory made
\* if missing, the times sorted, one run per time (one frequency)
NewPipeline(dcy, times, freq, tscop) ==
    /\ pipeline = None
    /\ pipeline' = [params_model_dcy |-> dcy, model_dcy |-> dcy,
                    model_file |-> dcy \o <<"jetmodel.save">>,
                    save_file |-> dcy \o <<"modelrun.save">>,
                    times |-> SortSeq(times, LAMBDA a, b : a < b)]
    /\ disk' = IF Path(dcy, 0, 0, "") \in DOMAIN disk THEN disk
               ELSE (Path(dcy, 0, 0, "") :> 0) @@ disk
    /\ runs' = [i \in 1 .. Len(times) |->
                   ContinuumRun(dcy, SortSeq(times, LAMBDA a, b : a < b)[i], freq, tscop)]
    /\ ret' = [op |-> "Pipeline"]
    /\ UNCHANGED <<model, time, jml_t, ejections, cache, nloops, given, saved,
                   _arr_indexing, fits, plsaved, exec>>

\* Pipeline.save: rs = self.runs is the list of the pipeline itself, so
\* rs[idx].dcy = run.dcy.replace(home, '~') rewrites the runs in memory
SavedRuns(rs, absolute_directories) ==
    IF absolute_directories THEN rs
    ELSE [i \in DOMAIN rs |-> [rs[i] EXCEPT !.dcy = TildePath(@)]]

\* Pipeline.save: ps = self._params is the dict of the pipeline itself;
\* mf is a local string
SavedPipeline(pl, absolute_directories) ==
    IF absolute_directories THEN pl
    ELSE [pl EXCEPT !.params_model_dcy = TildePath(@)]

\* the dict Pipeline.save pickles, for the runs rs as they are in memory
\* after the loop over them
Pickle(rs, pl, absolute_directories) ==
    [runs |-> rs, params_model_dcy |-> pl.params_model_dcy,
     model_file |-> IF absolute_directories THEN pl.model_file
                    ELSE TildePath(pl.model_file)]

\* Pipeline.save(save_file, absolute_directories) called by the user
PipelineSave(absolute_directories) ==
    /\ pipeline # None /\ exec.pc # "loop"
    /\ runs' = SavedRuns(runs, absolute_directories)
    /\ pipeline' = SavedPipeline(pipeline, absolute_directories)
    /\ plsaved' = Pickle(SavedRuns(runs, absolute_directories),
                         SavedPipeline(pipeline, absolute_directories),
                         absolute_directories)
    /\ ret' = [op |-> "Pipeline.save", absolute_directories |-> absolute_directories,
               before |-> [runs |-> runs, pipeline |-> pipeline]]
    /\ UNCHANGED <<model, time, jml_t, ejections, cache, nloops, given, saved,
                   _arr_indexing, fits, disk, exec>>

\* one effect of Pipeline.execute on run idx, at the model time it happened
Effect(idx, kind, t) == [run |-> idx, kind |-> kind, time |-> t]

\* the disk after os.makedirs(run.rt_dcy) where missing
WithRtDcy(d, run) ==
    IF rt_dcy(run) \in DOMAIN d THEN d ELSE (rt_dcy(run) :> 0) @@ d

\* the artifacts among the first k the radiative-transfer step of a run
\* produces on the disk d: those missing, or all of them with clobber
Produced(d, run, k, clobber) ==
    SelectSeq(<<1, 2, 3, 4>>,
              LAMBDA i : i <= k /\ (ArtifactPath(run, i) \notin DOMAIN d \/ clobber))

\* the disk after the artifacts is are written at model time t
WithArtifacts(d, run, is, t) ==
    [q \in DOMAIN d \cup {ArtifactPath(run, is[j]) : j \in 1 .. Len(is)} |->
        IF \E j \in 1 .. Len(is) : q = ArtifactPath(run, is[j]) THEN t ELSE d[q]]

\* JetModel.save(self.model_file) on the model as the step leaves it
ModelFile == [params |-> params, areas |-> _areas', ffs |-> _ff', time |-> time']

\* Pipeline.execute up to its loop: the pointing file, and with resume the
\* model loaded from the model file if there is one (JetModel.load_model,
\* which raises AttributeError for a file holding fill factors)
ExecuteBegin(simobserve, dryrun, resume, clobber) ==
    /\ pipeline # None /\ exec.pc # "loop" /\ exec.calls < MaxCalls
    /\ disk' = IF simobserve
               THEN [q \in DOMAIN disk \cup {Path(pipeline.model_dcy, 0, 0, "pointings.ptg")} |->
                        IF q \in DOMAIN disk THEN disk[q] ELSE 0]
               ELSE disk
    /\ IF resume /\ saved # None /\ (saved.ffs # None \/ saved.areas # None)
       THEN /\ exec' = [pc |-> "raised", idx |-> 0, simobserve |-> simobserve,
                        dryrun |-> dryrun, resume |-> resume, clobber |-> clobber,
                        entry |-> runs, effects |-> <<>>, error |-> "AttributeError",
                        calls |-> exec.calls + 1]
            /\ UNCHANGED <<model, time, jml_t, ejections, cache, nloops, given>>
       ELSE /\ exec' = [pc |-> "loop", idx |-> 1, simobserve |-> simobserve,
                        dryrun |-> dryrun, resume |-> resume, clobber |-> clobber,
                        entry |-> runs, effects |-> <<>>, error |-> "none",
                        calls |-> exec.calls + 1]
            /\ IF resume /\ saved # None
               THEN /\ params' = ParamsAfter(saved.params)
                    /\ nx' = GridDims(saved.params)[1]
                    /\ ny' = GridDims(saved.params)[2]
                    /\ nz' = GridDims(saved.params)[3]
                    /\ jml_t' = InitEvents(saved.params.ejection, saved.params.mlr)
                    /\ ejections' = InitEvents(saved.params.ejection, saved.params.mlr)
                    /\ time' = saved.time
                    /\ _ff' = None /\ _areas' = None /\ _ts' = None /\ _m' = None
                    /\ _nd' = None /\ _xi' = None /\ _temp' = None /\ _v' = None
                    /\ nloops' = 0
                    /\ given' = saved.params
               ELSE UNCHANGED <<model, time, jml_t, ejections, cache, nloops, given>>
    /\ ret' = [op |-> "execute"]
    /\ UNCHANGED <<saved, _arr_indexing, fits, pipeline, runs, plsaved>>

\* every completed run skipped, whatever clobber
Skipped_always(run, clobber) == run.completed

\* if run.completed and not clobber: continue
Skipped(run, clobber) == run.completed /\ ~clobber

\* the products computed at the time the model had before the pass
TimeAtProducts_stale(run, before) == before

\* the model time while the products of a run are computed: self.model.time
\* = run.year * con.year is the first statement of the pass
TimeAtProducts(run, before) == run.year * Year

\* the interrupted run marked completed
Interrupted_marked(rs, idx) ==
    [SavedRuns(rs, FALSE) EXCEPT ![idx].completed = TRUE]

\* the runs after the KeyboardInterrupt handler of the pass of run idx:
\* self.save(self.save_file); the statements after the try are not reached
Interrupted(rs, idx) == SavedRuns(rs, FALSE)

\* Pipeline.execute, one pass of the loop over the runs without an
\* interrupt: the model time set, the run skipped if completed and not
\* clobber; else its directory made, with not dryrun the model plot and the
\* EM, Tau and Flux images written where missing (or clobber), the total
\* flux stored, the model saved if there is no model file and the pipeline
\* saved; the synthetic observation; completed set
ExecuteRun ==
    /\ exec.pc = "loop" /\ exec.idx <= Len(runs)
    /\ LET idx == exec.idx
           run == runs[idx]
           now == run.year * Year
           t   == TimeAtProducts(run, time)
           rt  == ~exec.dryrun /\ run.radiative_transfer
           so  == exec.simobserve /\ run.simobserve /\ ~exec.dryrun
           d1  == WithRtDcy(disk, run)
           is  == IF rt THEN Produced(d1, run, 4, exec.clobber) ELSE <<>>
           d2  == WithArtifacts(d1, run, is, t)
           res == [flux  |-> IF rt THEN <<d2[fits_flux(run)]>> ELSE run.results.flux,
                   imfit |-> IF so THEN <<"imfit">> ELSE run.results.imfit]
       IN  /\ time' = now
           /\ IF Skipped(run, exec.clobber)
              THEN /\ exec' = [exec EXCEPT !.idx = idx + 1,
                                           !.effects = Append(@, Effect(idx, "skipped", now))]
                   /\ UNCHANGED <<cache, nloops, saved, disk, runs, plsaved>>
              ELSE /\ disk' = d2
                   /\ IF is # <<>> THEN Access(FFReads) ELSE UNCHANGED <<cache, nloops>>
                   /\ saved' = IF rt /\ saved = None THEN ModelFile ELSE saved
                   /\ plsaved' = IF rt
                                 THEN Pickle([runs EXCEPT ![idx].results = res], pipeline, TRUE)
                                 ELSE plsaved
                   /\ runs' = [runs EXCEPT ![idx].results = res,
                                           ![idx].products =
                                               IF so THEN {"ms_noisy", "ms_clean", "clean_image"}
                                               ELSE @,
                                           ![idx].completed = TRUE]
                   /\ exec' = [exec EXCEPT
                          !.idx = idx + 1,
                          !.effects = @ \o <<Effect(idx, "entered", now)>>
                                        \o [j \in 1 .. Len(is) |->
                                               Effect(idx, Artifacts[is[j]], t)]
                                        \o (IF so THEN <<Effect(idx, "simobserve", now)>>
                                            ELSE <<>>)]
    /\ ret' = [op |-> "execute"]
    /\ UNCHANGED <<model, jml_t, ejections, given, _arr_indexing, fits, pipeline>>

\* Pipeline.execute, a pass of the loop in which KeyboardInterrupt is raised
\* in the radiative-transfer step after k artifacts: the handler saves the
\* pipeline (absolute_directories False) and the model, and raises
ExecuteInterrupt(k) ==
    /\ exec.pc = "loop" /\ exec.idx <= Len(runs)
    /\ LET idx == exec.idx
           run == runs[idx]
           now == run.year * Year
           t   == TimeAtProducts(run, time)
           d1  == WithRtDcy(disk, run)
           is  == Produced(d1, run, k, exec.clobber)
       IN  /\ ~Skipped(run, exec.clobber)
           /\ ~exec.dryrun /\ run.radiative_transfer
           /\ time' = now
           /\ disk' = WithArtifacts(d1, run, is, t)
           /\ IF is # <<>> THEN Access(FFReads) ELSE UNCHANGED <<cache, nloops>>
           /\ runs' = Interrupted(runs, idx)
           /\ pipeline' = SavedPipeline(pipeline, FALSE)
           /\ plsaved' = Pickle(Interrupted(runs, idx), SavedPipeline(pipeline, FALSE), FALSE)
           /\ saved' = ModelFile
           /\ exec' = [exec EXCEPT
                  !.pc = "raised", !.error = "KeyboardInterrupt",
                  !.effects = @ \o <<Effect(idx, "entered", now)>>
                                \o [j \in 1 .. Len(is) |-> Effect(idx, Artifacts[is[j]], t)]]
    /\ ret' = [op |-> "execute"]
    /\ UNCHANGED <<model, jml_t, ejections, given, _arr_indexing, fits>>

\* plot_continuum_fluxes reads results['flux'] and results['imfit'] of every
\* completed run of the year: KeyError for a run without them
PlotRaises(rs) ==
    \E i \in DOMAIN rs :
        rs[i].completed /\ (rs[i].results.flux = <<>> \/ rs[i].results.imfit = <<>>)

\* Pipeline.execute after its loop: the flux plots of the times (not dryrun
\* and simobserve), the pipeline saved (absolute_directories False) and the
\* model saved
ExecuteEnd ==
    /\ exec.pc = "loop" /\ exec.idx > Len(runs)
    /\ IF ~exec.dryrun /\ exec.simobserve /\ PlotRaises(runs)
       THEN /\ exec' = [exec EXCEPT !.pc = "raised", !.error = "KeyError"]
            /\ UNCHANGED <<runs, pipeline, plsaved, saved>>
       ELSE /\ runs' = SavedRuns(runs, FALSE)
            /\ pipeline' = SavedPipeline(pipeline, FALSE)
            /\ plsaved' = Pickle(SavedRuns(runs, FALSE), SavedPipeline(pipeline, FALSE), FALSE)
            /\ saved' = [params |-> params, areas |-> _areas, ffs |-> _ff, time |-> time]
            /\ exec' = [exec EXCEPT !.pc = "returned"]
    /\ ret' = [op |-> "execute"]
    /\ UNCHANGED <<model, time, jml_t, ejections, cache, nloops, given, _arr_indexing,
                   fits, disk>>

\* one model, a pipeline of one or two epochs in a directory under or
\* outside the home directory, with or without a telescope
InitPipe ==
    \E p \in Configs({<<2, 1, 4>>}, {Geometry(6, 5, 12, 1)}, Phys, {<<Burst(1, 1, 3)>>}) :
        Construct(p)

NextPipe ==
    \/ \E dcy \in {<<Home, "jet">>, <<"/data", "jet">>}, times \in {<<1>>, <<2, 1>>},
          tscop \in {None, <<"VLA", "A">>} : NewPipeline(dcy, times, 1, tscop)
    \/ \E so, dr, re, cl \in BOOLEAN : ExecuteBegin(so, dr, re, cl)
    \/ ExecuteRun
    \/ \E k \in 0 .. 3 : ExecuteInterrupt(k)
    \/ ExecuteEnd
    \/ \E a \in BOOLEAN : PipelineSave(a)

SpecPipe == InitPipe /\ [][NextPipe]_vars

\* C28: Pipeline.save only writes the pickle: for both values of
\* absolute_directories the dcy of every run, params['dcys']['model_dcy'] and
\* the model_file of the pipeline are after the call what they were before it
C28_SaveLeavesPathsUnchanged ==
    ret.op = "Pipeline.save" =>
        /\ \A i \in DOMAIN runs : runs[i].dcy = ret.before.runs[i].dcy
        /\ pipeline.params_model_dcy = ret.before.pipeline.params_model_dcy
        /\ pipeline.model_file = ret.before.pipeline.model_file

\* C28, the part that holds: the model_file attribute is never rewritten, and
\* a save with absolute_directories True leaves the runs and the parameters
C28_AbsoluteSaveLeavesPaths ==
    ret.op = "Pipeline.save" =>
        /\ pipeline.model_file = ret.before.pipeline.model_file
        /\ ret.absolute_directories =>
              runs = ret.before.runs /\ pipeline = ret.before.pipeline

\* the effects the pass of the loop being taken adds to the history
NewEffects ==
    {exec'.effects[j] : j \in Len(exec.effects) + 1 .. Len(exec'.effects)}

\* C24: in Pipeline.execute with clobber False a run whose completed flag is
\* True on entry is skipped entirely (nothing made on the disk, no product
\* computed, no synthetic observation, the run, the pickle and the model
\* file as they were); with clobber True every run the loop reaches is
\* executed whatever its flag: its directory exists afterwards and, the pass
\* not interrupted, it is completed and, unless dryrun, all its products are
\* computed anew
C24_CompletedRunsSkipped ==
    [][(exec.pc = "loop" /\ exec.idx <= Len(runs)) =>
          LET idx == exec.idx
              run == runs[idx]
          IN  /\ (exec.entry[idx].completed /\ ~exec.clobber) =>
                    /\ disk' = disk /\ runs' = runs
                    /\ UNCHANGED <<cache, nloops, saved, plsaved, pipeline>>
                    /\ exec'.pc = "loop" /\ exec'.idx = idx + 1
                    /\ \A e \in NewEffects : e.kind = "skipped"
              /\ exec.clobber =>
                    /\ rt_dcy(run) \in DOMAIN disk'
                    /\ Effect(idx, "entered", run.year * Year) \in NewEffects
                    /\ exec'.pc = "loop" =>
                          /\ runs'[idx].completed
                          /\ ~exec.dryrun =>
                                \A a \in 1 .. 4 :
                                    /\ Effect(idx, Artifacts[a], run.year * Year) \in NewEffects
                                    /\ disk'[ArtifactPath(run, a)] = run.year * Year
                          /\ (exec.simobserve /\ run.simobserve /\ ~exec.dryrun) =>
                                Effect(idx, "simobserve", run.year * Year) \in NewEffects]_vars

\* a call with clobber False has skipped a completed run, and a call with
\* clobber True has executed a run that was completed on entry
C24_Witness ==
    /\ exec.pc = "returned" /\ Len(runs) = 2
    /\ \/ /\ ~exec.clobber
          /\ \E j \in DOMAIN exec.effects : exec.effects[j].kind = "skipped"
       \/ /\ exec.clobber /\ ~exec.dryrun /\ exec.entry[1].completed
          /\ \E j \in DOMAIN exec.effects :
                exec.effects[j] = Effect(1, "Flux", runs[1].year * Year)

\* C25: Pipeline.execute takes the runs in list order and sets the model time
\* to run.year x seconds-per-year before any product of the run: every
\* product is computed at the epoch of its run; the time is set for skipped
\* runs too, and after a normal return it is that of the last run
C25_ProductsAtRunEpoch ==
    /\ \A j \in DOMAIN exec.effects :
          exec.effects[j].time = runs[exec.effects[j].run].year * Year
    /\ \A j, k \in DOMAIN exec.effects :
          j < k => exec.effects[j].run <= exec.effects[k].run
    /\ \A i \in DOMAIN runs :
          /\ \A a \in 1 .. 4 :
                ArtifactPath(runs[i], a) \in DOMAIN disk =>
                   disk[ArtifactPath(runs[i], a)] = runs[i].year * Year
          /\ runs[i].results.flux \in {<<>>, <<runs[i].year * Year>>}
    /\ (exec.pc = "loop" /\ exec.idx > 1) => time = runs[exec.idx - 1].year * Year
    /\ (exec.pc = "returned" /\ Len(runs) > 0) => time = runs[Len(runs)].year * Year

\* a call over two epochs has returned: the first run was skipped with the
\* time set to its epoch, the products of the second were then computed at
\* the epoch of the second
C25_Witness ==
    /\ exec.pc = "returned" /\ Len(runs) = 2 /\ runs[1].year # runs[2].year
    /\ time = runs[2].year * Year
    /\ \E j \in DOMAIN exec.effects : exec.effects[j] = Effect(1, "skipped", runs[1].year * Year)
    /\ \E j \in DOMAIN exec.effects : exec.effects[j] = Effect(2, "EM", runs[2].year * Year)

C27_DryrunCompletesNothing ==
    (exec.pc = "returned" /\ exec.dryrun) =>
        \A i \in DOMAIN runs : runs[i].completed => exec.entry[i].completed

\* C27, the part that holds: a dryrun computes no product and stores no flux
C27_DryrunComputesNothing ==
    (exec.pc \in {"loop", "returned"} /\ exec.dryrun) =>
        /\ \A j \in DOMAIN exec.effects : exec.effects[j].kind \in {"entered", "skipped"}
        /\ \A i \in DOMAIN runs : runs[i].results = exec.entry[i].results

====
